---- MODULE Spec2Model ----
(***************************************************************************)
(* Model of go-http-server/openevolve_eval.py: the evaluation pipeline     *)
(* evaluate(), the supervised launch_servers process with its background   *)
(* output collector (_read_stream), the readiness wait, the error scan,    *)
(* the workload runner with its stray-process cleanup, and the escalating  *)
(* shutdown _terminate_process.                                            *)
(*                                                                         *)
(* The main thread is a sequential program with a program counter pc.  The *)
(* supervised process group, the collector thread and the files the        *)
(* external commands write are the environment: they move on their own,    *)
(* interleaved with the main thread.                                       *)
(***************************************************************************)
EXTENDS Integers, Sequences, FiniteSets, TLC

\* ------------------------------------------------------------------ bounds

\* Lines the server process group writes to its output stream in one run.
MaxLines == 1

\* Lines of one section of the aggregated log.
MaxSectionLines == 3

\* Lines of one worker log.
MaxWorkerLines == 2

\* Sections of the aggregated log that are opened while no section is open.
MaxSections == 2

\* Files the glob wrk_client_*.log finds in the logs directory.
MaxWorkers == 2

\* Workers in a list passed to compute_run_metrics by a caller of its own.
MaxEntries == 3

\* Characters of a token passed to parse_latency or parse_throughput.
MaxTokenLen == 4

\* ------------------------------------------------------- program constants

\* _wait_for_server_logs(proc, timeout=30.0), polled every time.sleep(1.0).
WAIT_TIMEOUT == 30
WAIT_SLEEP == 1
\* proc.wait(timeout=15), proc.wait(timeout=5), reader.join(timeout=2).
INT_WAIT == 15
TERM_WAIT == 5
JOIN_WAIT == 2

\* METRICS_DEFAULTS
MetricKeys ==
  {"average_tput", "average_latency", "total_score", "run_successful", "compile_successful"}

METRICS_DEFAULTS == [k \in MetricKeys |-> 0]

\* Files matching SERVER_LOG_GLOB that may exist in LOG_DIR.
LogNames == {"server0.log", "server1.log"}

\* A log file is absent, or holds text without or with a match of ERROR_PATTERN.
LogContents == {"absent", "clean", "marker"}

\* The stages of evaluate(), in program order.
Stages ==
  <<"build", "launch", "wait", "scan", "workload", "check_summary", "parse", "collect">>

\* Cells of the metrics CSV: text float() accepts ("1", "2") or rejects ("x").
Tokens == {"1", "2", "x"}
Columns == {"avg_req_per_sec", "avg_latency_ms", "score"}

\* A data row as csv.DictReader yields it: the header's columns (any subset
\* of the three the code asks for) mapped to the row's cells.
Rows == UNION {[S -> Tokens] : S \in SUBSET Columns}

\* The metrics file: no data row, one, or two.
MetricsFiles == {<<>>} \cup {<<r>> : r \in Rows} \cup {<<r, s>> : r \in Rows, s \in Rows}

VARIABLES
  pc,              \* position of the main thread in evaluate()
  exit,            \* how evaluate() is leaving: "none", "return" or "raise"
  metrics,         \* the metrics map of the result
  artifacts,       \* the artifacts map of the result: key -> what it holds
  outputArtifact,  \* the text stored under launch_servers_output (line numbers)
  stageLog,        \* stages executed so far, in order
  failed,          \* the stage that failed, or "none"
  server_proc,     \* evaluate()'s handle: "None" or "Popen"
  procState,       \* the group leader: "not_started", "running", "dying", "exited"
  produced,        \* lines written to the output pipe so far
  eof,             \* every writer has closed the pipe
  stdoutClosed,    \* proc.stdout.close() was called
  server_output,   \* the shared buffer the collector appends to
  reader,          \* the collector thread: "None", "running", "done"
  logDir,          \* LOG_DIR: log name -> content
  ownLog,          \* the server launched in this run has written a log file
  elapsed,         \* seconds slept in _wait_for_server_logs
  waitResult,      \* its return value: "none", "true", "false"
  pollSaw,         \* what its latest proc.poll() saw: "none", "alive", "exited"
  globSaw,         \* what its latest glob saw: "none", "file", "nofile"
  earlyPoll,       \* what evaluate()'s poll after readiness saw
  workFiles,       \* the summary files the check found in WORKLOAD_LOG_DIR
  build_rc,        \* outcome of the build command
  scanSaw,         \* the log files that held an error marker when the scan read them
  workload_rc,     \* outcome of the workload runner
  cleanupLog,      \* steps of the cleanup in the _run_workload call in progress
  cleanups,        \* how many times the stray-process cleanup has run
  parsedRow,       \* <<first data row>> of the metrics file the metrics were parsed from
  termLog,         \* events of _terminate_process on a launched process
  termExc,         \* an exception is propagating out of _terminate_process
  readerAtRead,    \* the collector's state when the buffer was read for the artifact
  \* basic-workload-summary.py
  main_pc,         \* position in main(), "not_run" while the summarizer is not running
  logs_dir,        \* args.logs_dir: "missing", "file" or "dir"
  worker_logs,     \* number of files the glob wrk_client_*.log found
  aggregated_log,  \* basic-workload.log exists
  stats,           \* the list of WorkerStats
  current_name,    \* parse_aggregated_log: the open section's name, or "None"
  current_lines,   \* parse_aggregated_log: the lines buffered for the open section
  main_exit,       \* "running", "return 0", "return 1", "ValueError"
  error,           \* what the ValueError is about, or "none"
  missing,         \* the field names a "Missing fields" error lists
  output_file,     \* <<rows>> once write_csv has written args.output
  metrics_file,    \* <<row>> once write_metrics_csv has written args.metrics_output
  opened,          \* the section that is open in the input read so far, or "None"
  between,         \* the non-marker lines read since the START of that section
  event,           \* what the line just read was, given the input before it
  expected,        \* per closed START/END pair: what its lines hold
  extract_input,   \* the lines of the latest _extract_metrics_from_lines call
  extract_result,  \* and what the call gave
  \* one call of a function of the summarizers
  given,           \* what the caller passes: "nothing", a token, or a list of workers
  call_token,      \* the token passed to parse_latency or parse_throughput
  entries,         \* the list passed to compute_run_metrics
  called,          \* the function that was called, or "none"
  call_result      \* what the call returned or raised

resultVars == <<metrics, artifacts, outputArtifact>>
waitVars == <<elapsed, waitResult, pollSaw, globSaw, earlyPoll>>
workVars == <<build_rc, scanSaw, workload_rc, cleanupLog, cleanups, workFiles, parsedRow>>
termVars == <<termLog, termExc, stdoutClosed, readerAtRead>>
procVars == <<procState, produced, eof>>
readerVars == <<server_output, reader>>
logVars == <<logDir, ownLog>>

evalVars ==
  <<pc, exit, metrics, artifacts, outputArtifact, stageLog, failed, server_proc,
    procState, produced, eof, stdoutClosed, server_output, reader, logDir, ownLog,
    elapsed, waitResult, pollSaw, globSaw, earlyPoll, build_rc, scanSaw, workload_rc,
    cleanupLog, cleanups, workFiles, parsedRow,
    termLog, termExc, readerAtRead>>

inputVars == <<logs_dir, worker_logs, aggregated_log>>
splitVars == <<current_name, current_lines>>
outVars == <<main_exit, error, missing, output_file, metrics_file>>
ghostVars == <<opened, between, event, expected>>
extractVars == <<extract_input, extract_result>>
sumVars == <<main_pc, inputVars, stats, splitVars, outVars, ghostVars, extractVars>>

callVars == <<given, call_token, entries, called, call_result>>

vars == <<evalVars, sumVars, callVars>>

\* ------------------------------------ basic-workload-summary.py: numbers

\* A float is modelled by the rational it stands for, written (n/d) * 10^e
\* in the one way that has n/d in lowest terms, d prime to 10 and n not a
\* multiple of 10 (zero is 0/1 * 10^0), so that equal numbers are equal
\* records and a factor such as 1e9 is held in the exponent.  None is
\* Python's None.
RECURSIVE GCD(_, _)
GCD(a, b) == IF b = 0 THEN a ELSE GCD(b, a % b)

RECURSIVE Pow10(_)
Pow10(k) == IF k = 0 THEN 1 ELSE 10 * Pow10(k - 1)

RECURSIVE Scaled(_, _, _)
Scaled(n, d, e) ==
  IF n = 0 THEN [n |-> 0, d |-> 1, e |-> 0]
  ELSE IF d % 2 = 0 THEN Scaled(n * 5, d \div 2, e - 1)
  ELSE IF d % 5 = 0 THEN Scaled(n * 2, d \div 5, e - 1)
  ELSE IF n % 10 = 0 THEN Scaled(n \div 10, d, e + 1)
  ELSE [n |-> n, d |-> d, e |-> e]
Norm(n, d, e) == LET g == GCD(n, d) IN Scaled(n \div g, d \div g, e)

Rat(n, d) == Norm(n, d, 0)
None == [n |-> 0, d |-> 0, e |-> 0]
\* The numerator of a over the denominator a.d when the exponent is lowered to e.
AtExponent(a, e) == a.n * Pow10(a.e - e)
LowerExponent(a, b) == IF a.e < b.e THEN a.e ELSE b.e
RatMul(a, b) == Norm(a.n * b.n, a.d * b.d, a.e + b.e)
RatAdd(a, b) ==
  LET e == LowerExponent(a, b)
  IN  Norm(AtExponent(a, e) * b.d + AtExponent(b, e) * a.d, a.d * b.d, e)
RatDiv(a, b) == Norm(a.n * b.d, a.d * b.n, a.e - b.e)

\* ------------------------------------- basic-workload-summary.py: tokens

\* A token is the sequence of its characters.
DigitChars == {"0", "1", "2", "3", "4", "5", "6", "7", "8", "9"}
NumberChars == DigitChars \cup {"."}
LowerChars == {"a", "g", "k", "m", "n", "s", "u", "x"}
DigitValue(c) ==
  CASE c = "0" -> 0 [] c = "1" -> 1 [] c = "2" -> 2 [] c = "3" -> 3 [] c = "4" -> 4
    [] c = "5" -> 5 [] c = "6" -> 6 [] c = "7" -> 7 [] c = "8" -> 8 [] c = "9" -> 9

\* str.lower(), on the characters tokens are spelled with here
LowerChar(c) ==
  CASE c = "A" -> "a" [] c = "G" -> "g" [] c = "K" -> "k" [] c = "M" -> "m"
    [] c = "N" -> "n" [] c = "S" -> "s" [] c = "U" -> "u" [] c = "X" -> "x"
    [] OTHER -> c
lower(token) == [i \in DOMAIN token |-> LowerChar(token[i])]

\* How far the group ([0-9]*\.?[0-9]+) can reach: the digits and dots the
\* token starts with.  What follows must be matched by the second group.
RECURSIVE NumberLen(_)
NumberLen(t) ==
  IF t = <<>> \/ Head(t) \notin NumberChars THEN 0 ELSE 1 + NumberLen(Tail(t))

\* t matches [0-9]*\.?[0-9]+
IsNumber(t) ==
  /\ t # <<>>
  /\ \A i \in DOMAIN t : t[i] \in NumberChars
  /\ t[Len(t)] \in DigitChars
  /\ Cardinality({i \in DOMAIN t : t[i] = "."}) <= 1

RECURSIVE DigitsValue(_)
DigitsValue(ds) ==
  IF ds = <<>> THEN 0
  ELSE 10 * DigitsValue(SubSeq(ds, 1, Len(ds) - 1)) + DigitValue(ds[Len(ds)])

\* float(match.group(1))
Float(t) ==
  LET dots == {i \in DOMAIN t : t[i] = "."}
      decimals == IF dots = {} THEN 0 ELSE Len(t) - (CHOOSE i \in dots : TRUE)
  IN  Norm(DigitsValue(SelectSeq(t, LAMBDA c : c # ".")), 1, 0 - decimals)

\* _LATENCY_UNITS_MS, lines 17-21
LATENCY_UNITS_MS ==
  (<<"u", "s">> :> Rat(1, 1000)) @@ (<<"m", "s">> :> Rat(1, 1)) @@ (<<"s">> :> Rat(1000, 1))

\* _THROUGHPUT_SUFFIXES, lines 23-28
THROUGHPUT_SUFFIXES ==
  (<<>> :> Rat(1, 1)) @@ (<<"k">> :> Rat(1000, 1)) @@ (<<"m">> :> Rat(1000000, 1))
    @@ (<<"g">> :> Rat(1000000000, 1))

\* Variant: the unit is looked up as it is spelled.
parse_latency_case_sensitive(token) ==
  LET k == NumberLen(token)
      number == SubSeq(token, 1, k)
      unit == SubSeq(token, k + 1, Len(token))
  IN  IF ~(IsNumber(number) /\ unit # <<>> /\ \A i \in DOMAIN unit : unit[i] \in LowerChars)
        THEN [raised |-> "Unrecognized latency value", value |-> None]
      ELSE IF unit \notin DOMAIN LATENCY_UNITS_MS
        THEN [raised |-> "Unsupported latency unit", value |-> None]
      ELSE [raised |-> "none", value |-> RatMul(Float(number), LATENCY_UNITS_MS[unit])]

\* parse_latency(), lines 90-98: the milliseconds, or the ValueError raised
parse_latency(token) ==
  LET t == lower(token)
      k == NumberLen(t)
      number == SubSeq(t, 1, k)
      unit == SubSeq(t, k + 1, Len(t))
  IN  IF ~(IsNumber(number) /\ unit # <<>> /\ \A i \in DOMAIN unit : unit[i] \in LowerChars)
        THEN [raised |-> "Unrecognized latency value", value |-> None]
      ELSE IF unit \notin DOMAIN LATENCY_UNITS_MS
        THEN [raised |-> "Unsupported latency unit", value |-> None]
      ELSE [raised |-> "none", value |-> RatMul(Float(number), LATENCY_UNITS_MS[unit])]

\* str.strip(), for blanks
RECURSIVE lstrip(_)
lstrip(t) == IF t # <<>> /\ Head(t) = " " THEN lstrip(Tail(t)) ELSE t
RECURSIVE rstrip(_)
rstrip(t) == IF t # <<>> /\ t[Len(t)] = " " THEN rstrip(SubSeq(t, 1, Len(t) - 1)) ELSE t
strip(t) == rstrip(lstrip(t))

NanTokens == {<<"n", "a", "n">>, <<"-", "n", "a", "n">>, <<"+", "n", "a", "n">>}

\* Variant: nan is not a special case.
parse_throughput_nan_fails(token) ==
  LET t == lower(strip(token))
      k == NumberLen(t)
      number == SubSeq(t, 1, k)
      suffix == SubSeq(t, k + 1, Len(t))
  IN  IF ~(IsNumber(number) /\ suffix \in {<<>>, <<"k">>, <<"m">>, <<"g">>})
        THEN [raised |-> "Unrecognized throughput value", value |-> None]
      ELSE IF suffix \notin DOMAIN THROUGHPUT_SUFFIXES
        THEN [raised |-> "Unsupported throughput suffix", value |-> None]
      ELSE [raised |-> "none", value |-> RatMul(Float(number), THROUGHPUT_SUFFIXES[suffix])]

\* parse_throughput(), lines 101-112: the requests per second, or the
\* ValueError raised
parse_throughput(token) ==
  LET t == lower(strip(token))
      k == NumberLen(t)
      number == SubSeq(t, 1, k)
      suffix == SubSeq(t, k + 1, Len(t))
  IN  IF t \in NanTokens
        THEN [raised |-> "none", value |-> Rat(0, 1)]
      ELSE IF ~(IsNumber(number) /\ suffix \in {<<>>, <<"k">>, <<"m">>, <<"g">>})
        THEN [raised |-> "Unrecognized throughput value", value |-> None]
      ELSE IF suffix \notin DOMAIN THROUGHPUT_SUFFIXES
        THEN [raised |-> "Unsupported throughput suffix", value |-> None]
      ELSE [raised |-> "none", value |-> RatMul(Float(number), THROUGHPUT_SUFFIXES[suffix])]

\* ---------------------------- basic-workload-summary.py: lines of a log

\* A line is what the code tells apart in it: whether it matches
\* _SECTION_START_RE or _SECTION_END_RE and with which name, and otherwise
\* the words of line.split(): the first one and the tokens after it.
SectionNames == {"a", "wrk_client_1.log"}
Marker(kind, name) == [kind |-> kind, name |-> name, head |-> "=====", args |-> <<>>]
Text(head, args) == [kind |-> "text", name |-> "", head |-> head, args |-> args]
StartLines == {Marker("START", name) : name \in SectionNames}
EndLines == {Marker("END", name) : name \in SectionNames}

ms0 == <<"0", "m", "s">>
ms1 == <<"1", "m", "s">>
ms2 == <<"2", "m", "s">>
rps1 == <<"1">>
rps2 == <<"2">>
TextLines ==
  { Text("Latency", <<ms1, ms1>>), Text("Latency", <<ms2, ms1>>),
    Text("Latency", <<ms0, ms1>>), Text("Latency", <<<<"x">>, ms1>>),
    Text("Latency", <<>>),
    Text("Req/Sec", <<rps1, rps1>>), Text("Req/Sec", <<rps2, rps1>>),
    Text("Requests/sec:", <<rps1>>) }
Lines == StartLines \cup EndLines \cup TextLines

\* The contents of one worker log.
WorkerLines ==
  { Text("Latency", <<ms1, ms1>>), Text("Latency", <<ms2, ms1>>),
    Text("Latency", <<<<"x">>, ms1>>),
    Text("Req/Sec", <<rps1, rps1>>), Text("Requests/sec:", <<rps1>>) }
WorkerFiles == UNION {[1..n -> WorkerLines] : n \in 0..MaxWorkerLines}

\* ------------------- basic-workload-summary.py: _extract_metrics_from_lines

NoMetrics ==
  [raised |-> "none", missing |-> {}, latency_avg_ms |-> None, latency_stdev_ms |-> None,
   req_avg |-> None, req_stdev |-> None]

\* Lines 65-66 and 71-72: both tokens parsed and assigned, or the ValueError
\* of the first one that does not parse
assign_latency(found, avg, stdev) ==
  IF avg.raised # "none" THEN [found EXCEPT !.raised = avg.raised]
  ELSE IF stdev.raised # "none" THEN [found EXCEPT !.raised = stdev.raised]
  ELSE [found EXCEPT !.latency_avg_ms = avg.value, !.latency_stdev_ms = stdev.value]
assign_req(found, avg, stdev) ==
  IF avg.raised # "none" THEN [found EXCEPT !.raised = avg.raised]
  ELSE IF stdev.raised # "none" THEN [found EXCEPT !.raised = stdev.raised]
  ELSE [found EXCEPT !.req_avg = avg.value, !.req_stdev = stdev.value]

\* Lines 59-72, one iteration of the loop
extract_line(found, line) ==
  IF found.raised # "none" THEN found
  ELSE IF line.head = "Latency"
    THEN IF Len(line.args) + 1 < 3 THEN found
         ELSE CHOOSE next \in {assign_latency(found, avg, stdev) :
                                 avg \in {parse_latency(line.args[1])},
                                 stdev \in {parse_latency(line.args[2])}} : TRUE
  ELSE IF line.head = "Req/Sec"
    THEN IF Len(line.args) + 1 < 3 THEN found
         ELSE CHOOSE next \in {assign_req(found, avg, stdev) :
                                 avg \in {parse_throughput(line.args[1])},
                                 stdev \in {parse_throughput(line.args[2])}} : TRUE
  ELSE found

\* Lines 59-72, the loop
RECURSIVE extract_lines(_, _)
extract_lines(found, lines) ==
  IF lines = <<>> THEN found
  ELSE extract_lines(extract_line(found, Head(lines)), Tail(lines))

FieldNames == {"latency_avg", "latency_stdev", "req_per_sec_avg", "req_per_sec_stdev"}

\* Variant: only the averages are looked for.
missing_fields_averages_only(found) ==
  {name \in {"latency_avg", "req_per_sec_avg"} :
     (CASE name = "latency_avg" -> found.latency_avg_ms
        [] name = "req_per_sec_avg" -> found.req_avg) = None}

\* Lines 74-83: the names whose value is None
missing_fields(found) ==
  {name \in FieldNames :
     (CASE name = "latency_avg" -> found.latency_avg_ms
        [] name = "latency_stdev" -> found.latency_stdev_ms
        [] name = "req_per_sec_avg" -> found.req_avg
        [] name = "req_per_sec_stdev" -> found.req_stdev) = None}

\* _extract_metrics_from_lines(), lines 55-87: the four values, or the
\* ValueError raised (by a parser, or "Missing fields" with the names)
after_loop(found) ==
  IF found.raised # "none" THEN [NoMetrics EXCEPT !.raised = found.raised]
  ELSE IF missing_fields(found) # {}
    THEN [NoMetrics EXCEPT !.raised = "Missing fields", !.missing = missing_fields(found)]
  ELSE found
extract_metrics_from_lines(lines) ==
  CHOOSE result \in {after_loop(found) : found \in {extract_lines(NoMetrics, lines)}} : TRUE

\* _deduce_worker_id(), lines 133-137: the digits of wrk_client_<digits>.log,
\* or else the name without its suffix
deduce_worker_id(name) ==
  CASE name = "wrk_client_1.log" -> "1"
    [] name = "wrk_client_2.log" -> "2"
    [] name = "wrk_client_3.log" -> "3"
    [] OTHER -> name

\* WorkerStats(...), lines 123-130 and 173-180
WorkerStats(name, found) ==
  [worker_id |-> deduce_worker_id(name),
   latency_avg_ms |-> found.latency_avg_ms,
   latency_stdev_ms |-> found.latency_stdev_ms,
   req_per_sec_avg |-> found.req_avg,
   req_per_sec_stdev |-> found.req_stdev,
   log_path |-> name]

\* The path of the n-th file the sorted glob yields.
WorkerLog(n) ==
  CASE n = 1 -> "wrk_client_1.log" [] n = 2 -> "wrk_client_2.log" [] OTHER -> "wrk_client_3.log"

\* ----------------------------------------------------------------- helpers

\* artifacts[key] = value
Put(map, key, value) == [k \in DOMAIN map \cup {key} |-> IF k = key THEN value ELSE map[k]]

\* _extract_metrics_from_lines() has not been called.
NotCalled == [NoMetrics EXCEPT !.raised = "not called"]

\* The summarizer before main() has done anything.
SummaryStart ==
  /\ stats = <<>>
  /\ current_name = "None"
  /\ current_lines = <<>>
  /\ main_exit = "running"
  /\ error = "none"
  /\ missing = {}
  /\ output_file = <<>>
  /\ metrics_file = <<>>
  /\ opened = "None"
  /\ between = <<>>
  /\ event = "none"
  /\ expected = <<>>
  /\ extract_input = <<>>
  /\ extract_result = NotCalled

\* No function is called on its own.
NotReturned == [raised |-> "not called"]
CallIdle ==
  /\ given = "nothing"
  /\ call_token = <<>>
  /\ entries = <<>>
  /\ called = "none"
  /\ call_result = NotReturned

\* evaluate() is modelled on its own: the summarizer does not run.
SummaryIdle ==
  /\ main_pc = "not_run"
  /\ logs_dir = "missing"
  /\ worker_logs = 0
  /\ aggregated_log = FALSE
  /\ SummaryStart

Init ==
  /\ pc = "build"
  /\ exit = "none"
  /\ metrics = METRICS_DEFAULTS
  /\ artifacts = [k \in {} |-> "none"]
  /\ outputArtifact = <<>>
  /\ stageLog = <<>>
  /\ failed = "none"
  /\ server_proc = "None"
  /\ procState = "not_started"
  /\ produced = 0
  /\ eof = FALSE
  /\ stdoutClosed = FALSE
  /\ server_output = <<>>
  /\ reader = "None"
  /\ logDir \in [LogNames -> LogContents]
  /\ ownLog = FALSE
  /\ elapsed = 0
  /\ waitResult = "none"
  /\ pollSaw = "none"
  /\ globSaw = "none"
  /\ earlyPoll = "none"
  /\ build_rc = "none"
  /\ scanSaw = {}
  /\ workload_rc = "none"
  /\ cleanups = 0
  /\ cleanupLog = <<>>
  /\ workFiles = {}
  /\ parsedRow = <<>>
  /\ termLog = <<>>
  /\ termExc = FALSE
  /\ readerAtRead = "unread"
  /\ SummaryIdle
  /\ CallIdle

\* ------------------------------------------------- evaluate(): build, launch

\* What subprocess.run / subprocess.Popen can do with an external command,
\* as far as the code tells the cases apart.
RunOutcomes == {"zero", "nonzero", "FileNotFoundError"}

\* Variant: the return code is not looked at (any build that ran counts as ok).
run_go_generate_ignores_rc(outcome) ==
  IF outcome = "FileNotFoundError"
    THEN <<FALSE, "Failed to execute go generate">>
    ELSE <<TRUE, "go generate output">>

\* _run_go_generate(): <<compile_ok, compile_output>>
run_go_generate(outcome) ==
  IF outcome = "FileNotFoundError"
    THEN <<FALSE, "Failed to execute go generate">>
    ELSE <<outcome = "zero", "go generate output">>

\* evaluate(), lines 226-234: the build step, outside the try block.
evaluate_build ==
  /\ pc = "build"
  /\ \E outcome \in RunOutcomes :
       LET r == run_go_generate(outcome) IN
         /\ build_rc' = outcome
         /\ stageLog' = Append(stageLog, "build")
         /\ artifacts' = Put(artifacts, "compile_output", r[2])
         /\ IF ~r[1]
              THEN /\ pc' = "done"
                   /\ exit' = "return"
                   /\ failed' = "build"
                   /\ metrics' = metrics
              ELSE /\ pc' = "launch"
                   /\ metrics' = [metrics EXCEPT !["compile_successful"] = 1]
                   /\ UNCHANGED <<exit, failed>>
  /\ UNCHANGED <<outputArtifact, server_proc>>
  /\ UNCHANGED <<scanSaw, workload_rc, cleanupLog, cleanups, workFiles, parsedRow>>
  /\ UNCHANGED <<waitVars, termVars, procVars, readerVars, logVars>>
  /\ UNCHANGED <<sumVars, callVars>>

\* Variant: the RuntimeError of _start_servers is not caught.
evaluate_launch_unhandled ==
  /\ pc = "launch"
  /\ stageLog' = Append(stageLog, "launch")
  /\ \/ /\ server_proc' = "Popen"
        /\ procState' = "running"
        /\ reader' = "running"
        /\ pc' = "wait_enter"
        /\ UNCHANGED <<exit, failed>>
     \/ /\ exit' = "raise"
        /\ failed' = "launch"
        /\ pc' = "finally"
        /\ UNCHANGED <<server_proc, procState, reader>>
  /\ UNCHANGED <<metrics, artifacts, outputArtifact, produced, eof, server_output>>
  /\ UNCHANGED <<waitVars, workVars, termVars, logVars>>
  /\ UNCHANGED <<sumVars, callVars>>

\* evaluate(), lines 241-246, with _start_servers(): Popen starts the group
\* leader and the collector thread, or raises FileNotFoundError, which
\* _start_servers turns into the RuntimeError evaluate() catches.
evaluate_launch ==
  /\ pc = "launch"
  /\ stageLog' = Append(stageLog, "launch")
  /\ \/ /\ server_proc' = "Popen"
        /\ procState' = "running"
        /\ reader' = "running"
        /\ pc' = "wait_enter"
        /\ UNCHANGED <<exit, failed, artifacts>>
     \/ /\ artifacts' = Put(artifacts, "launch_failure", "Failed to launch servers")
        /\ exit' = "return"
        /\ failed' = "launch"
        /\ pc' = "finally"
        /\ UNCHANGED <<server_proc, procState, reader>>
  /\ UNCHANGED <<metrics, outputArtifact, produced, eof, server_output>>
  /\ UNCHANGED <<waitVars, workVars, termVars, logVars>>
  /\ UNCHANGED <<sumVars, callVars>>

\* ------------------------------------------------- _wait_for_server_logs()

\* any(LOG_DIR.glob(SERVER_LOG_GLOB))
AnyServerLog == \E f \in LogNames : logDir[f] # "absent"

\* line 132: deadline = time.time() + timeout
wait_enter ==
  /\ pc = "wait_enter"
  /\ stageLog' = Append(stageLog, "wait")
  /\ elapsed' = 0
  /\ pc' = "wait_test"
  /\ UNCHANGED <<exit, failed, server_proc, waitResult, pollSaw, globSaw, earlyPoll>>
  /\ UNCHANGED <<resultVars, workVars, termVars, procVars, readerVars, logVars>>
  /\ UNCHANGED <<sumVars, callVars>>

\* Variant: the deadline itself still counts as before the deadline.
before_deadline_inclusive(slept) == slept <= WAIT_TIMEOUT

\* line 133: time.time() < deadline, after `slept` seconds of sleeping
before_deadline(slept) == slept < WAIT_TIMEOUT

\* line 133 and line 140: while time.time() < deadline ... return False
wait_test ==
  /\ pc = "wait_test"
  /\ IF before_deadline(elapsed)
       THEN pc' = "wait_poll" /\ UNCHANGED waitResult
       ELSE pc' = "wait_ret" /\ waitResult' = "false"
  /\ UNCHANGED <<exit, failed, server_proc, stageLog, elapsed, pollSaw, globSaw, earlyPoll>>
  /\ UNCHANGED <<resultVars, workVars, termVars, procVars, readerVars, logVars>>
  /\ UNCHANGED <<sumVars, callVars>>

\* lines 134-135: if proc.poll() is not None: return False
wait_poll ==
  /\ pc = "wait_poll"
  /\ IF procState = "exited"
       THEN pollSaw' = "exited" /\ waitResult' = "false" /\ pc' = "wait_ret"
       ELSE pollSaw' = "alive" /\ pc' = "wait_glob" /\ UNCHANGED waitResult
  /\ UNCHANGED <<exit, failed, server_proc, stageLog, elapsed, globSaw, earlyPoll>>
  /\ UNCHANGED <<resultVars, workVars, termVars, procVars, readerVars, logVars>>
  /\ UNCHANGED <<sumVars, callVars>>

\* lines 137-138: if any(LOG_DIR.glob(SERVER_LOG_GLOB)): return True
wait_glob ==
  /\ pc = "wait_glob"
  /\ IF AnyServerLog
       THEN globSaw' = "file" /\ waitResult' = "true" /\ pc' = "wait_ret"
       ELSE globSaw' = "nofile" /\ pc' = "wait_sleep" /\ UNCHANGED waitResult
  /\ UNCHANGED <<exit, failed, server_proc, stageLog, elapsed, pollSaw, earlyPoll>>
  /\ UNCHANGED <<resultVars, workVars, termVars, procVars, readerVars, logVars>>
  /\ UNCHANGED <<sumVars, callVars>>

\* line 139: time.sleep(1.0)
wait_sleep ==
  /\ pc = "wait_sleep"
  /\ elapsed' = elapsed + WAIT_SLEEP
  /\ pc' = "wait_test"
  /\ UNCHANGED <<exit, failed, server_proc, stageLog, waitResult, pollSaw, globSaw, earlyPoll>>
  /\ UNCHANGED <<resultVars, workVars, termVars, procVars, readerVars, logVars>>
  /\ UNCHANGED <<sumVars, callVars>>

\* evaluate(), lines 248-255: readiness was not observed.
evaluate_after_wait ==
  /\ pc = "wait_ret"
  /\ elapsed' = 0
  /\ IF waitResult = "false"
       THEN /\ artifacts' = Put(artifacts, "launch_failure", "Server logs did not appear")
            /\ exit' = "return"
            /\ failed' = "wait"
            /\ pc' = "finally"
       ELSE /\ pc' = "early_exit"
            /\ UNCHANGED <<artifacts, exit, failed>>
  /\ UNCHANGED <<metrics, outputArtifact, server_proc, stageLog>>
  /\ UNCHANGED <<waitResult, pollSaw, globSaw, earlyPoll>>
  /\ UNCHANGED <<workVars, termVars, procVars, readerVars, logVars>>
  /\ UNCHANGED <<sumVars, callVars>>

\* evaluate(), lines 257-260: the launch script exited prematurely.
evaluate_early_exit ==
  /\ pc = "early_exit"
  /\ IF procState = "exited"
       THEN /\ earlyPoll' = "exited"
            /\ artifacts' = Put(artifacts, "launch_failure", "launch_servers.sh exited early")
            /\ exit' = "return"
            /\ failed' = "wait"
            /\ pc' = "finally"
       ELSE /\ earlyPoll' = "alive"
            /\ pc' = "scan"
            /\ UNCHANGED <<artifacts, exit, failed>>
  /\ UNCHANGED <<metrics, outputArtifact, server_proc, stageLog>>
  /\ UNCHANGED <<elapsed, waitResult, pollSaw, globSaw>>
  /\ UNCHANGED <<workVars, termVars, procVars, readerVars, logVars>>
  /\ UNCHANGED <<sumVars, callVars>>

\* ------------------------------------------------- evaluate(): error scan

\* Variant: the pattern never matches.
scan_server_logs_blind == {}

\* _scan_server_logs_for_errors(): the names of the log files whose content
\* matches ERROR_PATTERN (the keys of findings; the value is the content).
scan_server_logs_for_errors == {f \in LogNames : logDir[f] = "marker"}

\* f"log_{name}"
LogKey(f) == IF f = "server0.log" THEN "log_server0.log" ELSE "log_server1.log"
LogKeys == {LogKey(f) : f \in LogNames}

\* Variant: once anything is found, every server log is attached.
evaluate_scan_attaches_all ==
  /\ pc = "scan"
  /\ stageLog' = Append(stageLog, "scan")
  /\ scanSaw' = {f \in LogNames : logDir[f] = "marker"}
  /\ LET error_logs == scan_server_logs_for_errors
         present == {f \in LogNames : logDir[f] # "absent"} IN
       IF error_logs # {}
         THEN /\ artifacts' =
                   [k \in DOMAIN artifacts \cup {LogKey(f) : f \in present}
                                           \cup {"launch_failure"} |->
                      IF k = "launch_failure" THEN "Detected 'error' keyword in server logs"
                      ELSE IF \E f \in present : k = LogKey(f)
                             THEN logDir[CHOOSE f \in present : k = LogKey(f)]
                      ELSE artifacts[k]]
              /\ exit' = "return"
              /\ failed' = "scan"
              /\ pc' = "finally"
         ELSE /\ pc' = "workload"
              /\ UNCHANGED <<artifacts, exit, failed>>
  /\ UNCHANGED <<metrics, outputArtifact, server_proc>>
  /\ UNCHANGED <<build_rc, workload_rc, cleanupLog, cleanups, workFiles, parsedRow>>
  /\ UNCHANGED <<waitVars, termVars, procVars, readerVars, logVars>>
  /\ UNCHANGED <<sumVars, callVars>>

\* evaluate(), lines 262-267
evaluate_scan ==
  /\ pc = "scan"
  /\ stageLog' = Append(stageLog, "scan")
  /\ scanSaw' = {f \in LogNames : logDir[f] = "marker"}
  /\ LET error_logs == scan_server_logs_for_errors IN
       IF error_logs # {}
         THEN /\ artifacts' =
                   [k \in DOMAIN artifacts \cup {LogKey(f) : f \in error_logs}
                                           \cup {"launch_failure"} |->
                      IF k = "launch_failure" THEN "Detected 'error' keyword in server logs"
                      ELSE IF k \in {LogKey(f) : f \in error_logs} THEN "marker"
                      ELSE artifacts[k]]
              /\ exit' = "return"
              /\ failed' = "scan"
              /\ pc' = "finally"
         ELSE /\ pc' = "workload"
              /\ UNCHANGED <<artifacts, exit, failed>>
  /\ UNCHANGED <<metrics, outputArtifact, server_proc>>
  /\ UNCHANGED <<build_rc, workload_rc, cleanupLog, cleanups, workFiles, parsedRow>>
  /\ UNCHANGED <<waitVars, termVars, procVars, readerVars, logVars>>
  /\ UNCHANGED <<sumVars, callVars>>

\* ------------------------------------------------------------ _run_workload()

SummaryFiles == {"basic-workload-summary.csv", "basic-workload-summary-metrics.csv"}

\* lines 160-170: subprocess.run of the workload script.
run_workload_command ==
  /\ pc = "workload"
  /\ stageLog' = Append(stageLog, "workload")
  /\ \E outcome \in RunOutcomes : workload_rc' = outcome
  /\ pc' = "cleanup"
  /\ UNCHANGED <<exit, failed, server_proc, build_rc, scanSaw, cleanupLog, cleanups,
                 workFiles, parsedRow>>
  /\ UNCHANGED <<resultVars, waitVars, termVars, procVars, readerVars, logVars>>
  /\ UNCHANGED <<sumVars, callVars>>

\* The steps the cleanup can take: the sleep, then the two pkill commands,
\* either of which may raise and end the cleanup there.
CleanupRuns ==
  { <<"sleep", "pkill launch_servers", "pkill server_code">>,
    <<"sleep", "pkill launch_servers", "pkill server_code", "raised">>,
    <<"sleep", "pkill launch_servers", "raised">> }

\* Variant: the cleanup has no except clause; its error leaves _run_workload
\* and evaluate()'s try block.
run_workload_cleanup_unguarded ==
  /\ pc = "cleanup"
  /\ cleanups' = cleanups + 1
  /\ \E steps \in CleanupRuns :
       /\ cleanupLog' = cleanupLog \o steps
       /\ IF steps[Len(steps)] = "raised"
            THEN pc' = "finally" /\ exit' = "raise"
            ELSE pc' = "workload_ret" /\ UNCHANGED exit
  /\ UNCHANGED <<failed, server_proc, stageLog, build_rc, scanSaw, workload_rc,
                 workFiles, parsedRow>>
  /\ UNCHANGED <<resultVars, waitVars, termVars, procVars, readerVars, logVars>>
  /\ UNCHANGED <<sumVars, callVars>>

\* lines 171-179: the finally block; except Exception: pass
run_workload_cleanup ==
  /\ pc = "cleanup"
  /\ \E steps \in CleanupRuns : cleanupLog' = cleanupLog \o steps
  /\ cleanups' = cleanups + 1
  /\ pc' = "workload_ret"
  /\ UNCHANGED <<exit, failed, server_proc, stageLog, build_rc, scanSaw, workload_rc,
                 workFiles, parsedRow>>
  /\ UNCHANGED <<resultVars, waitVars, termVars, procVars, readerVars, logVars>>
  /\ UNCHANGED <<sumVars, callVars>>

\* _run_workload()'s first return value (lines 170 and 181)
workload_ok == workload_rc = "zero"

\* evaluate(), lines 269-276
evaluate_workload_ret ==
  /\ pc = "workload_ret"
  /\ LET withOut == Put(Put(artifacts, "workload_stdout", "captured stdout"),
                        "workload_stderr",
                        IF workload_rc = "FileNotFoundError"
                          THEN "FileNotFoundError" ELSE "captured stderr") IN
       IF ~workload_ok
         THEN /\ artifacts' = Put(withOut, "workload_failure", "basic-workload.sh exited with code")
              /\ exit' = "return"
              /\ failed' = "workload"
              /\ pc' = "finally"
         ELSE /\ artifacts' = withOut
              /\ pc' = "check_summary"
              /\ UNCHANGED <<exit, failed>>
  /\ cleanupLog' = <<>>
  /\ UNCHANGED <<metrics, outputArtifact, server_proc, stageLog>>
  /\ UNCHANGED <<build_rc, scanSaw, workload_rc, cleanups, workFiles, parsedRow>>
  /\ UNCHANGED <<waitVars, termVars, procVars, readerVars, logVars>>
  /\ UNCHANGED <<sumVars, callVars>>

\* evaluate(), lines 278-285
evaluate_check_summary ==
  /\ pc = "check_summary"
  /\ stageLog' = Append(stageLog, "check_summary")
  /\ \E files \in SUBSET SummaryFiles : workFiles' = files
  /\ IF workFiles' # SummaryFiles
       THEN /\ artifacts' = Put(artifacts, "workload_failure", "summary files were not generated")
            /\ exit' = "return"
            /\ failed' = "check_summary"
            /\ pc' = "finally"
       ELSE /\ pc' = "parse"
            /\ UNCHANGED <<artifacts, exit, failed>>
  /\ UNCHANGED <<metrics, outputArtifact, server_proc>>
  /\ UNCHANGED <<build_rc, scanSaw, workload_rc, cleanupLog, cleanups, parsedRow>>
  /\ UNCHANGED <<waitVars, termVars, procVars, readerVars, logVars>>
  /\ UNCHANGED <<sumVars, callVars>>

\* ------------------------------------------------------- _parse_metrics_csv()

\* float(text): defined for the cells float() accepts
Parseable(tok) == tok \in {"1", "2"}
float_of(tok) == IF tok = "1" THEN 1 ELSE 2

\* float(row.get(key, 0.0)): the value, or "ValueError"
Cell(row, key) ==
  IF key \notin DOMAIN row THEN 0
  ELSE IF Parseable(row[key]) THEN float_of(row[key])
  ELSE -1

\* Variant: the loop runs to the end and the last row's values are returned.
DataRow_last(file) == file[Len(file)]

\* The first data row the reader yields (line 188: for row in reader).
DataRow(file) == file[1]

\* Lines 184-193: [raised, avg_tput, avg_latency, score]; without a data row,
\* or with a cell float() rejects, the call raises.
parse_metrics_csv(file) ==
  IF file = <<>>
    THEN [raised |-> TRUE, avg_tput |-> 0, avg_latency |-> 0, score |-> 0]
    ELSE LET row == DataRow(file)
             t == Cell(row, "avg_req_per_sec")
             l == Cell(row, "avg_latency_ms")
             c == Cell(row, "score")
         IN  [raised |-> (t < 0 \/ l < 0 \/ c < 0), avg_tput |-> t, avg_latency |-> l, score |-> c]

\* evaluate(), lines 287-296
evaluate_parse ==
  /\ pc = "parse"
  /\ stageLog' = Append(stageLog, "parse")
  /\ \E file \in MetricsFiles :
       LET r == parse_metrics_csv(file) IN
         /\ IF r.raised
              THEN /\ exit' = "raise"
                   /\ UNCHANGED parsedRow
                   /\ failed' = "parse"
                   /\ pc' = "finally"
                   /\ metrics' = metrics
              ELSE /\ metrics' = [metrics EXCEPT !["average_tput"] = r.avg_tput,
                                                 !["average_latency"] = r.avg_latency,
                                                 !["total_score"] = r.score,
                                                 !["run_successful"] = 1]
                   /\ parsedRow' = <<file[1]>>
                   /\ pc' = "collect"
                   /\ UNCHANGED <<exit, failed>>
  /\ UNCHANGED <<artifacts, outputArtifact, server_proc>>
  /\ UNCHANGED <<build_rc, scanSaw, workload_rc, cleanupLog, cleanups, workFiles>>
  /\ UNCHANGED <<waitVars, termVars, procVars, readerVars, logVars>>
  /\ UNCHANGED <<sumVars, callVars>>

\* evaluate(), lines 298-319: the two summary files that were just found,
\* and whichever of the latest acceptq_stats / cpu_stats logs exist.
StatsArtifacts == {"acceptq_stats_log", "cpu_stats_log"}

evaluate_collect ==
  /\ pc = "collect"
  /\ stageLog' = Append(stageLog, "collect")
  /\ \E found \in SUBSET StatsArtifacts :
       artifacts' =
         [k \in DOMAIN artifacts \cup found
                \cup {"basic_workload_summary_csv", "basic_workload_metrics_csv"} |->
            IF k \in DOMAIN artifacts THEN artifacts[k] ELSE "file content"]
  /\ exit' = "return"
  /\ pc' = "finally"
  /\ UNCHANGED <<metrics, outputArtifact, failed, server_proc>>
  /\ UNCHANGED <<waitVars, workVars, termVars, procVars, readerVars, logVars>>
  /\ UNCHANGED <<sumVars, callVars>>

\* --------------------------------------------------- _terminate_process()

\* Variant: the teardown sits after the try block instead of in a finally
\* clause, so an exception passes it by.
terminate_enter_not_on_raise ==
  /\ pc = "finally"
  /\ IF server_proc = "None" \/ exit = "raise"
       THEN pc' = "fin_output" /\ UNCHANGED termLog
       ELSE pc' = "term_poll" /\ termLog' = Append(termLog, "enter")
  /\ UNCHANGED <<exit, failed, server_proc, stageLog, termExc, stdoutClosed, readerAtRead>>
  /\ UNCHANGED <<resultVars, waitVars, workVars, procVars, readerVars, logVars>>
  /\ UNCHANGED <<sumVars, callVars>>

\* evaluate(), line 322, and lines 95-98: the finally block calls
\* _terminate_process, which returns at once when there is no process.
terminate_enter ==
  /\ pc = "finally"
  /\ IF server_proc = "None"
       THEN pc' = "fin_output" /\ UNCHANGED termLog
       ELSE pc' = "term_poll" /\ termLog' = Append(termLog, "enter")
  /\ UNCHANGED <<exit, failed, server_proc, stageLog, termExc, stdoutClosed, readerAtRead>>
  /\ UNCHANGED <<resultVars, waitVars, workVars, procVars, readerVars, logVars>>
  /\ UNCHANGED <<sumVars, callVars>>

\* line 101: if proc.poll() is None: the signalling block, else the finally block
after_poll(exited) == IF exited THEN "term_join" ELSE "term_sigint"

terminate_poll ==
  /\ pc = "term_poll"
  /\ termLog' = Append(termLog, IF procState = "exited" THEN "poll exited" ELSE "poll alive")
  /\ pc' = after_poll(procState = "exited")
  /\ UNCHANGED <<exit, failed, server_proc, stageLog, termExc, stdoutClosed, readerAtRead>>
  /\ UNCHANGED <<resultVars, waitVars, workVars, procVars, readerVars, logVars>>
  /\ UNCHANGED <<sumVars, callVars>>

\* os.killpg(os.getpgid(proc.pid), sig): the signal goes out, or the process
\* is gone and the call raises ProcessLookupError.
SignalOutcomes ==
  IF procState = "exited" THEN {"sent", "ProcessLookupError"} ELSE {"sent"}

SignalEvent(sig, outcome) ==
  IF outcome = "sent" THEN sig
  ELSE IF sig = "SIGINT" THEN "SIGINT ProcessLookupError"
  ELSE "SIGTERM ProcessLookupError"

\* Variant: ProcessLookupError is not caught; it leaves through the finally block.
after_signal_raises(outcome, next) ==
  IF outcome = "ProcessLookupError"
    THEN [pc |-> "term_join", raising |-> TRUE]
    ELSE [pc |-> next, raising |-> FALSE]

\* except ProcessLookupError: pass (lines 104-105, 112-113): where the thread
\* goes after a signal attempt, and whether an exception is propagating.
after_signal(outcome, next) == [pc |-> next, raising |-> FALSE]

\* lines 102-105
terminate_sigint ==
  /\ pc = "term_sigint"
  /\ \E outcome \in SignalOutcomes :
       LET to == after_signal(outcome, "term_wait15") IN
         /\ termLog' = Append(termLog, SignalEvent("SIGINT", outcome))
         /\ pc' = to.pc
         /\ termExc' = to.raising
  /\ UNCHANGED <<exit, failed, server_proc, stageLog, stdoutClosed, readerAtRead>>
  /\ UNCHANGED <<resultVars, waitVars, workVars, procVars, readerVars, logVars>>
  /\ UNCHANGED <<sumVars, callVars>>

\* Variant: the handler of the first TimeoutExpired kills at once.
after_wait15_kills(exited) == IF exited THEN "term_join" ELSE "term_kill"

\* lines 107-110: proc.wait(timeout=15) returns when the process has exited
\* and raises TimeoutExpired when it is still there at the deadline; the
\* handler of TimeoutExpired goes on to SIGTERM.
after_wait15(exited) == IF exited THEN "term_join" ELSE "term_sigterm"

terminate_wait15 ==
  /\ pc = "term_wait15"
  /\ termLog' = Append(termLog, IF procState = "exited" THEN "wait15 exited" ELSE "wait15 timeout")
  /\ pc' = after_wait15(procState = "exited")
  /\ UNCHANGED <<exit, failed, server_proc, stageLog, termExc, stdoutClosed, readerAtRead>>
  /\ UNCHANGED <<resultVars, waitVars, workVars, procVars, readerVars, logVars>>
  /\ UNCHANGED <<sumVars, callVars>>

\* lines 110-113
terminate_sigterm ==
  /\ pc = "term_sigterm"
  /\ \E outcome \in SignalOutcomes :
       LET to == after_signal(outcome, "term_wait5") IN
         /\ termLog' = Append(termLog, SignalEvent("SIGTERM", outcome))
         /\ pc' = to.pc
         /\ termExc' = to.raising
  /\ UNCHANGED <<exit, failed, server_proc, stageLog, stdoutClosed, readerAtRead>>
  /\ UNCHANGED <<resultVars, waitVars, workVars, procVars, readerVars, logVars>>
  /\ UNCHANGED <<sumVars, callVars>>

\* lines 114-117: proc.wait(timeout=5); the handler of TimeoutExpired kills.
after_wait5(exited) == IF exited THEN "term_join" ELSE "term_kill"

terminate_wait5 ==
  /\ pc = "term_wait5"
  /\ termLog' = Append(termLog, IF procState = "exited" THEN "wait5 exited" ELSE "wait5 timeout")
  /\ pc' = after_wait5(procState = "exited")
  /\ UNCHANGED <<exit, failed, server_proc, stageLog, termExc, stdoutClosed, readerAtRead>>
  /\ UNCHANGED <<resultVars, waitVars, workVars, procVars, readerVars, logVars>>
  /\ UNCHANGED <<sumVars, callVars>>

\* line 117: proc.kill() sends SIGKILL to the group leader unless it has
\* exited; the call does not wait for the process to die.
terminate_kill ==
  /\ pc = "term_kill"
  /\ termLog' = Append(termLog, "kill")
  /\ procState' = IF procState = "exited" THEN "exited" ELSE "dying"
  /\ pc' = "term_join"
  /\ UNCHANGED <<exit, failed, server_proc, stageLog, termExc, stdoutClosed, readerAtRead>>
  /\ UNCHANGED <<resultVars, waitVars, workVars, produced, eof, readerVars, logVars>>
  /\ UNCHANGED <<sumVars, callVars>>

\* lines 118-120: reader.join(timeout=2) returns when the thread has finished
\* or when the two seconds are over, whichever is first.
terminate_join ==
  /\ pc = "term_join"
  /\ termLog' = Append(termLog, IF reader = "done" THEN "join done" ELSE "join timeout")
  /\ pc' = "term_close"
  /\ UNCHANGED <<exit, failed, server_proc, stageLog, termExc, stdoutClosed, readerAtRead>>
  /\ UNCHANGED <<resultVars, waitVars, workVars, procVars, readerVars, logVars>>
  /\ UNCHANGED <<sumVars, callVars>>

\* _read_stream(), line 52: the collector is inside a read of the pipe that
\* has nothing to return yet: no line is waiting and a writer still holds
\* the pipe.  The read holds the lock of the buffered stream.
ReaderInRead == reader = "running" /\ Len(server_output) = produced /\ ~eof

\* line 122: close() of the buffered stream takes the stream's lock, so it
\* goes ahead only when no read of another thread is in progress.
close_can_proceed == ~ReaderInRead

\* lines 121-122: proc.stdout.close(); then _terminate_process returns, or
\* the exception it was raising leaves evaluate() through its finally block.
terminate_close ==
  /\ pc = "term_close"
  /\ close_can_proceed
  /\ stdoutClosed' = TRUE
  /\ termLog' = Append(termLog, "close")
  /\ IF termExc
       THEN pc' = "done" /\ exit' = "raise"
       ELSE pc' = "fin_output" /\ UNCHANGED exit
  /\ UNCHANGED <<failed, server_proc, stageLog, termExc, readerAtRead>>
  /\ UNCHANGED <<resultVars, waitVars, workVars, procVars, readerVars, logVars>>
  /\ UNCHANGED <<sumVars, callVars>>

\* evaluate(), lines 323-324: the buffer is read for the final artifact, and
\* evaluate() returns its result or lets the pending exception out.
evaluate_output ==
  /\ pc = "fin_output"
  /\ readerAtRead' = reader
  /\ IF server_output # <<>> /\ "launch_servers_output" \notin DOMAIN artifacts
       THEN /\ artifacts' = Put(artifacts, "launch_servers_output", "captured server output")
            /\ outputArtifact' = server_output
       ELSE UNCHANGED <<artifacts, outputArtifact>>
  /\ pc' = "done"
  /\ UNCHANGED <<exit, failed, server_proc, stageLog, metrics, termLog, termExc, stdoutClosed>>
  /\ UNCHANGED <<waitVars, workVars, procVars, readerVars, logVars>>
  /\ UNCHANGED <<sumVars, callVars>>

\* ------------------------------------------------------------ environment

mainVars == <<pc, exit, failed, server_proc, stageLog>>

\* The process group writes a line to the pipe it inherited as stdout/stderr.
ProcWrite ==
  /\ server_proc = "Popen"
  /\ ~eof
  /\ produced < MaxLines
  /\ produced' = produced + 1
  /\ UNCHANGED <<procState, eof>>
  /\ UNCHANGED <<mainVars, resultVars, waitVars, workVars, termVars, readerVars, logVars>>
  /\ UNCHANGED <<sumVars, callVars>>

\* The group leader exits: on its own, on a signal, or on the cleanup's pkill.
ProcExit ==
  /\ procState \in {"running", "dying"}
  /\ procState' = "exited"
  /\ UNCHANGED <<produced, eof>>
  /\ UNCHANGED <<mainVars, resultVars, waitVars, workVars, termVars, readerVars, logVars>>
  /\ UNCHANGED <<sumVars, callVars>>

\* The last holder of the pipe's write end (the leader or a descendant that
\* outlives it) closes it.
StreamEOF ==
  /\ procState = "exited"
  /\ ~eof
  /\ eof' = TRUE
  /\ UNCHANGED <<procState, produced>>
  /\ UNCHANGED <<mainVars, resultVars, waitVars, workVars, termVars, readerVars, logVars>>
  /\ UNCHANGED <<sumVars, callVars>>

\* _read_stream(), lines 52-53: for line in stream: buffer.append(line)
read_stream_line ==
  /\ reader = "running"
  /\ ~stdoutClosed
  /\ Len(server_output) < produced
  /\ server_output' = Append(server_output, Len(server_output) + 1)
  /\ UNCHANGED reader
  /\ UNCHANGED <<mainVars, resultVars, waitVars, workVars, termVars, procVars, logVars>>
  /\ UNCHANGED <<sumVars, callVars>>

\* _read_stream(), line 52: the stream is at its end and the loop is over.
read_stream_end ==
  /\ reader = "running"
  /\ ~stdoutClosed
  /\ eof
  /\ Len(server_output) = produced
  /\ reader' = "done"
  /\ UNCHANGED server_output
  /\ UNCHANGED <<mainVars, resultVars, waitVars, workVars, termVars, procVars, logVars>>
  /\ UNCHANGED <<sumVars, callVars>>

\* _read_stream(), lines 54-55: the stream was closed under the reader; the
\* read raises and the handler appends "[stream read error] ..." (line 0).
read_stream_error ==
  /\ reader = "running"
  /\ stdoutClosed
  /\ server_output' = Append(server_output, 0)
  /\ reader' = "done"
  /\ UNCHANGED <<mainVars, resultVars, waitVars, workVars, termVars, procVars, logVars>>
  /\ UNCHANGED <<sumVars, callVars>>

\* Where evaluate() still looks at the server logs.
LogObservedAt ==
  {"wait_enter", "wait_test", "wait_poll", "wait_glob", "wait_sleep", "wait_ret",
   "early_exit", "scan"}

\* A server of this run writes one of its log files.
ServerWriteLog ==
  /\ server_proc = "Popen"
  /\ pc \in LogObservedAt
  /\ \E f \in LogNames, content \in {"clean", "marker"} :
       /\ logDir[f] # content \/ ~ownLog
       /\ logDir' = [logDir EXCEPT ![f] = content]
       /\ ownLog' = TRUE
  /\ UNCHANGED <<mainVars, resultVars, waitVars, workVars, termVars, procVars, readerVars>>
  /\ UNCHANGED <<sumVars, callVars>>

\* ------------------------------------------------------------ specification

\* ---------------------------------- basic-workload-summary.py: run scoring

RatSquare(a) == RatMul(a, a)
RatSub(a, b) ==
  LET e == LowerExponent(a, b)
  IN  Norm(AtExponent(a, e) * b.d - AtExponent(b, e) * a.d, a.d * b.d, e)

RECURSIVE RatSum(_)
RatSum(values) == IF values = <<>> THEN Rat(0, 1) ELSE RatAdd(Head(values), RatSum(Tail(values)))

\* statistics.mean(values)
mean(values) == RatDiv(RatSum(values), Rat(Len(values), 1))

\* A standard deviation is ((n/d) * 10^e)^(1/root): root is 1 where the
\* square root of the variance is rational, and 2 where it is not.
IsSquare(n) == \E k \in 0..n : k * k = n
Isqrt(n) == CHOOSE k \in 0..n : k * k = n
SquareRoot(a) ==
  IF a.e % 2 = 0 /\ IsSquare(a.n) /\ IsSquare(a.d)
    THEN [n |-> Isqrt(a.n), d |-> Isqrt(a.d), e |-> a.e \div 2, root |-> 1]
    ELSE [n |-> a.n, d |-> a.d, e |-> a.e, root |-> 2]

\* Variant: statistics.stdev, the sample standard deviation.
stdev(values) ==
  SquareRoot(RatDiv(RatMul(RatSub(mean([i \in DOMAIN values |-> RatSquare(values[i])]),
                                  RatSquare(mean(values))),
                           Rat(Len(values), 1)),
                    Rat(Len(values) - 1, 1)))

\* statistics.pstdev(values): the root of the mean squared distance from
\* the mean, which is mean(x^2) - mean(x)^2
pstdev(values) ==
  SquareRoot(RatSub(mean([i \in DOMAIN values |-> RatSquare(values[i])]),
                    RatSquare(mean(values))))

\* What stands for the RunMetrics when the call raises and returns none.
NoStdev == [n |-> 0, d |-> 1, e |-> 0, root |-> 1]
NoRunMetrics ==
  [workers |-> 0, avg_latency_ms |-> None, latency_stddev_ms |-> NoStdev,
   avg_req_per_sec |-> None, req_per_sec_stddev |-> NoStdev, score |-> None]

\* Variant: a mean latency of zero gives a score of zero.
compute_run_metrics_zero_score(workers) ==
  LET latency_values == [i \in DOMAIN workers |-> workers[i].latency_avg_ms]
      req_values == [i \in DOMAIN workers |-> workers[i].req_per_sec_avg]
  IN  IF workers = <<>>
        THEN [raised |-> "No worker stats provided for scoring", metrics |-> NoRunMetrics]
      ELSE [raised |-> "none",
            metrics |->
              [workers |-> Len(workers),
               avg_latency_ms |-> mean(latency_values),
               latency_stddev_ms |-> IF Len(workers) > 1 THEN pstdev(latency_values) ELSE NoStdev,
               avg_req_per_sec |-> mean(req_values),
               req_per_sec_stddev |-> IF Len(workers) > 1 THEN pstdev(req_values) ELSE NoStdev,
               score |-> IF mean(latency_values) = Rat(0, 1) THEN Rat(0, 1)
                         ELSE RatDiv(mean(req_values), mean(latency_values))]]

\* compute_run_metrics(), lines 236-260: the RunMetrics, or the ValueError
compute_run_metrics(workers) ==
  LET latency_values == [i \in DOMAIN workers |-> workers[i].latency_avg_ms]
      req_values == [i \in DOMAIN workers |-> workers[i].req_per_sec_avg]
      zero == NoStdev
      nothing == NoRunMetrics
  IN  IF workers = <<>>
        THEN [raised |-> "No worker stats provided for scoring", metrics |-> nothing]
      ELSE IF mean(latency_values) = Rat(0, 1)
        THEN [raised |-> "Average latency is zero", metrics |-> nothing]
      ELSE [raised |-> "none",
            metrics |->
              [workers |-> Len(workers),
               avg_latency_ms |-> mean(latency_values),
               latency_stddev_ms |-> IF Len(workers) > 1 THEN pstdev(latency_values) ELSE zero,
               avg_req_per_sec |-> mean(req_values),
               req_per_sec_stddev |-> IF Len(workers) > 1 THEN pstdev(req_values) ELSE zero,
               score |-> RatDiv(mean(req_values), mean(latency_values))]]

\* per-connection-workload-summary.py, compute_run_metrics(), lines 144-168:
\* the RunMetrics, or the ValueError.  Of a WorkerSummary it reads
\* latency_avg_ms and throughput_req_per_sec.
per_connection_compute_run_metrics(workers) ==
  LET latency_values == [i \in DOMAIN workers |-> workers[i].latency_avg_ms]
      throughput_values == [i \in DOMAIN workers |-> workers[i].throughput_req_per_sec]
  IN  IF workers = <<>>
        THEN [raised |-> "No worker stats provided for scoring", metrics |-> NoRunMetrics]
      ELSE IF mean(latency_values) = Rat(0, 1)
        THEN [raised |-> "Average latency is zero", metrics |-> NoRunMetrics]
      ELSE [raised |-> "none",
            metrics |->
              [workers |-> Len(workers),
               avg_latency_ms |-> mean(latency_values),
               latency_stddev_ms |->
                 IF Len(workers) > 1 THEN pstdev(latency_values) ELSE NoStdev,
               avg_req_per_sec |-> mean(throughput_values),
               req_per_sec_stddev |->
                 IF Len(workers) > 1 THEN pstdev(throughput_values) ELSE NoStdev,
               score |-> RatDiv(mean(throughput_values), mean(latency_values))]]

\* ----------------------------------------- basic-workload-summary.py: main()

\* An uncaught ValueError ends main().
Raise(what, fields) ==
  /\ main_exit' = "ValueError"
  /\ error' = what
  /\ missing' = fields
  /\ main_pc' = "done"

\* The latest _extract_metrics_from_lines call is kept for the step after it.
NoExtract == extract_input' = <<>> /\ extract_result' = NotCalled

\* main(), lines 299-305
main_check_logs_dir ==
  /\ main_pc = "main"
  /\ IF logs_dir # "dir"
       THEN main_exit' = "return 1" /\ main_pc' = "done"
       ELSE main_pc' = "parse_wrk_log" /\ UNCHANGED main_exit
  /\ UNCHANGED <<inputVars, stats, splitVars, error, missing, output_file, metrics_file>>
  /\ UNCHANGED <<ghostVars, extractVars, evalVars, callVars>>

\* parse_wrk_log(), lines 115-130: the WorkerStats, or the ValueError
parse_wrk_log(path, lines) ==
  CHOOSE parsed \in
    {[raised |-> found.raised, missing |-> found.missing, stat |-> WorkerStats(path, found)] :
       found \in {extract_metrics_from_lines(lines)}} : TRUE

\* Variant: a log that does not parse is left out.
collect_worker_skips(parsed) == [stats |-> stats, raised |-> FALSE]

\* Line 308, one element of the list: an exception leaves the comprehension.
collect_worker(parsed) ==
  IF parsed.raised # "none"
    THEN [stats |-> stats, raised |-> TRUE]
    ELSE [stats |-> Append(stats, parsed.stat), raised |-> FALSE]

\* main(), lines 307-308: the next worker log is read and parsed
main_parse_wrk_log ==
  /\ main_pc = "parse_wrk_log"
  /\ Len(stats) < worker_logs
  /\ \E lines \in WorkerFiles :
       \E parsed \in {parse_wrk_log(WorkerLog(Len(stats) + 1), lines)} :
         \E next \in {collect_worker(parsed)} :
           /\ extract_input' = lines
           /\ \E found \in {extract_metrics_from_lines(lines)} : extract_result' = found
           /\ event' = IF parsed.raised # "none" THEN "worker_failed" ELSE event
           /\ stats' = next.stats
           /\ IF next.raised
                THEN Raise(parsed.raised, parsed.missing)
                ELSE UNCHANGED <<main_pc, main_exit, error, missing>>
  /\ UNCHANGED <<inputVars, splitVars, output_file, metrics_file, opened, between, expected>>
  /\ UNCHANGED <<evalVars, callVars>>

\* main(), lines 310-319: with no worker stats the aggregated log is the source
main_after_workers ==
  /\ main_pc = "parse_wrk_log"
  /\ Len(stats) >= worker_logs
  /\ IF stats # <<>> THEN main_pc' = "write_csv" /\ UNCHANGED main_exit
     ELSE IF aggregated_log THEN main_pc' = "split" /\ UNCHANGED main_exit
     ELSE main_exit' = "return 1" /\ main_pc' = "done"
  /\ NoExtract
  /\ UNCHANGED <<inputVars, stats, splitVars, error, missing, output_file, metrics_file>>
  /\ UNCHANGED <<ghostVars, evalVars, callVars>>

\* ------------------------ basic-workload-summary.py: parse_aggregated_log()

\* The locals after a line, and the ValueError the line raised, if any.
Splitter(name, lines, list, what, fields) ==
  [current_name |-> name, current_lines |-> lines, stats |-> list,
   error |-> what, missing |-> fields]
Unchanged == Splitter(current_name, current_lines, stats, "none", {})
Fatal(what, fields) == Splitter(current_name, current_lines, stats, what, fields)

\* Variant: a START inside a section starts the buffer over.
on_start_reopens(name) == Splitter(name, <<>>, stats, "none", {})

\* Lines 149-156: the line matches _SECTION_START_RE
on_start(name) ==
  IF current_name # "None"
    THEN Fatal("nested section start", {})
    ELSE Splitter(name, <<>>, stats, "none", {})

\* Lines 164-184: the open section is closed and scored
scored(found) ==
  IF found.raised # "none"
    THEN Fatal(found.raised, found.missing)
    ELSE Splitter("None", <<>>, Append(stats, WorkerStats(current_name, found)), "none", {})
close_section ==
  CHOOSE next \in {scored(found) : found \in {extract_metrics_from_lines(current_lines)}} : TRUE

\* Variant: any END closes the open section.
on_end_closes_any(name) ==
  IF current_name = "None" THEN Unchanged ELSE close_section

\* Lines 158-184: the line matches _SECTION_END_RE; with no section open it
\* falls through to line 186 and is dropped
on_end(name) ==
  IF current_name = "None" THEN Unchanged
  ELSE IF name # current_name THEN Fatal("section end does not match", {})
  ELSE close_section

\* Variant: only the latest line of a section is kept.
on_text_keeps_last(line) ==
  IF current_name # "None"
    THEN Splitter(current_name, <<line>>, stats, "none", {})
    ELSE Unchanged

\* Lines 186-187: any other line
on_text(line) ==
  IF current_name # "None"
    THEN Splitter(current_name, Append(current_lines, line), stats, "none", {})
    ELSE Unchanged

\* Variant: an open section at the end of the file is dropped.
at_eof_ignores_open ==
  IF stats = <<>> THEN Fatal("no worker sections", {}) ELSE Unchanged

\* Variant: the list is returned as it is.
at_eof_returns_empty ==
  IF current_name # "None" THEN Fatal("unterminated section", {}) ELSE Unchanged

\* Lines 189-197: after the last line
at_eof ==
  IF current_name # "None" THEN Fatal("unterminated section", {})
  ELSE IF stats = <<>> THEN Fatal("no worker sections", {})
  ELSE Unchanged

\* The locals and the exit of main() after a step of the loop.
split_to(next) ==
  /\ current_name' = next.current_name
  /\ current_lines' = next.current_lines
  /\ stats' = next.stats
  /\ IF next.error # "none"
       THEN Raise(next.error, next.missing)
       ELSE UNCHANGED <<main_pc, main_exit, error, missing>>

\* The loop reads a START line.
split_start ==
  /\ main_pc = "split"
  /\ \E name \in SectionNames :
       /\ opened # "None" \/ Len(stats) < MaxSections
       /\ \E next \in {on_start(name)} : split_to(next)
       /\ IF opened = "None"
            THEN event' = "start" /\ opened' = name /\ between' = <<>>
            ELSE event' = "nested_start" /\ UNCHANGED <<opened, between>>
  /\ NoExtract
  /\ UNCHANGED <<inputVars, output_file, metrics_file, expected, evalVars, callVars>>

\* The loop reads an END line.
split_end ==
  /\ main_pc = "split"
  /\ \E name \in SectionNames :
       /\ \E next \in {on_end(name)} : split_to(next)
       /\ IF opened = "None"
            THEN /\ event' = "end_outside"
                 /\ NoExtract
                 /\ UNCHANGED <<opened, between, expected>>
          ELSE IF name # opened
            THEN /\ event' = "end_mismatch"
                 /\ NoExtract
                 /\ UNCHANGED <<opened, between, expected>>
          ELSE /\ event' = "end_match"
               /\ extract_input' = between
               /\ \E found \in {extract_metrics_from_lines(between)} :
                    /\ extract_result' = found
                    /\ expected' = Append(expected, [name |-> opened, found |-> found])
               /\ opened' = "None"
               /\ between' = <<>>
  /\ UNCHANGED <<inputVars, output_file, metrics_file, evalVars, callVars>>

\* The loop reads a line that is neither.
split_text ==
  /\ main_pc = "split"
  /\ \E line \in TextLines :
       /\ opened # "None" => Len(between) + Len(stats) < MaxSectionLines
       /\ \E next \in {on_text(line)} : split_to(next)
       /\ IF opened = "None"
            THEN event' = "text_outside" /\ UNCHANGED between
            ELSE event' = "text_inside" /\ between' = Append(between, line)
  /\ NoExtract
  /\ UNCHANGED <<inputVars, output_file, metrics_file, opened, expected, evalVars, callVars>>

\* The file is at its end: parse_aggregated_log() raises or returns stats
\* to line 313.
split_eof ==
  /\ main_pc = "split"
  /\ \E next \in {at_eof} :
       /\ current_name' = next.current_name
       /\ current_lines' = next.current_lines
       /\ stats' = next.stats
       /\ IF next.error # "none"
            THEN Raise(next.error, next.missing)
            ELSE main_pc' = "write_csv" /\ UNCHANGED <<main_exit, error, missing>>
  /\ event' = IF opened = "None" THEN "eof_closed" ELSE "eof_open"
  /\ NoExtract
  /\ UNCHANGED <<inputVars, output_file, metrics_file, opened, between, expected, evalVars, callVars>>

\* --------------------------------- basic-workload-summary.py: the outputs

\* main(), lines 321-323: write_csv writes a row per entry
main_write_csv ==
  /\ main_pc = "write_csv"
  /\ output_file' = <<stats>>
  /\ main_pc' = "compute"
  /\ NoExtract
  /\ UNCHANGED <<inputVars, stats, splitVars, main_exit, error, missing, metrics_file>>
  /\ UNCHANGED <<ghostVars, evalVars, callVars>>

\* main(), lines 325-330
main_write_metrics ==
  /\ main_pc = "compute"
  /\ \E run \in {compute_run_metrics(stats)} :
       IF run.raised # "none"
         THEN Raise(run.raised, {}) /\ UNCHANGED metrics_file
         ELSE /\ metrics_file' = <<run.metrics>>
              /\ main_exit' = "return 0"
              /\ main_pc' = "done"
              /\ UNCHANGED <<error, missing>>
  /\ UNCHANGED <<inputVars, stats, splitVars, output_file, ghostVars, extractVars, evalVars, callVars>>

Pipeline ==
  \/ evaluate_build
  \/ evaluate_launch
  \/ wait_enter
  \/ wait_test
  \/ wait_poll
  \/ wait_glob
  \/ wait_sleep
  \/ evaluate_after_wait
  \/ evaluate_early_exit
  \/ evaluate_scan
  \/ run_workload_command
  \/ run_workload_cleanup
  \/ evaluate_workload_ret
  \/ evaluate_check_summary
  \/ evaluate_parse
  \/ evaluate_collect
  \/ terminate_enter
  \/ terminate_poll
  \/ terminate_sigint
  \/ terminate_wait15
  \/ terminate_sigterm
  \/ terminate_wait5
  \/ terminate_kill
  \/ terminate_join
  \/ terminate_close
  \/ evaluate_output

Environment ==
  \/ ProcWrite
  \/ ProcExit
  \/ StreamEOF
  \/ read_stream_line
  \/ read_stream_end
  \/ read_stream_error
  \/ ServerWriteLog

Next == Pipeline \/ Environment

Spec == Init /\ [][Next]_vars

\* The main thread keeps running: every call it blocks in has a timeout or
\* waits for an external command that ends.
FairSpec == Spec /\ WF_vars(Pipeline)

\* ------------------------------------- the summarizer as a program of its own

\* evaluate() does not run.
EvalIdle ==
  /\ pc = "not_run"
  /\ exit = "none"
  /\ metrics = METRICS_DEFAULTS
  /\ artifacts = [k \in {} |-> "none"]
  /\ outputArtifact = <<>>
  /\ stageLog = <<>>
  /\ failed = "none"
  /\ server_proc = "None"
  /\ procState = "not_started"
  /\ produced = 0
  /\ eof = FALSE
  /\ stdoutClosed = FALSE
  /\ server_output = <<>>
  /\ reader = "None"
  /\ logDir = [f \in LogNames |-> "absent"]
  /\ ownLog = FALSE
  /\ elapsed = 0
  /\ waitResult = "none"
  /\ pollSaw = "none"
  /\ globSaw = "none"
  /\ earlyPoll = "none"
  /\ build_rc = "none"
  /\ scanSaw = {}
  /\ workload_rc = "none"
  /\ cleanups = 0
  /\ cleanupLog = <<>>
  /\ workFiles = {}
  /\ parsedRow = <<>>
  /\ termLog = <<>>
  /\ termExc = FALSE
  /\ readerAtRead = "unread"

\* main(argv) of basic-workload-summary.py on a logs directory
SummaryInit ==
  /\ EvalIdle
  /\ main_pc = "main"
  /\ logs_dir \in {"missing", "file", "dir"}
  /\ worker_logs \in 0..MaxWorkers
  /\ aggregated_log \in BOOLEAN
  /\ SummaryStart
  /\ CallIdle

SummaryNext ==
  \/ main_check_logs_dir
  \/ main_parse_wrk_log
  \/ main_after_workers
  \/ split_start
  \/ split_end
  \/ split_text
  \/ split_eof
  \/ main_write_csv
  \/ main_write_metrics

SummarySpec == SummaryInit /\ [][SummaryNext]_vars

\* --------------------------------- the functions of the summarizers, called
\* --------------------------------- on their own

\* The characters the latency tokens passed by a caller are spelled with,
\* and tokens of the report format that are longer than MaxTokenLen.
LatencyChars == {"0", "1", "5", ".", "u", "m", "s", "S", "x"}
LatencyExamples == {<<"2", "0", "0", "u", "s">>, <<"1", "0", "M", "s">>, <<"-", "1", "m", "s">>}
LatencyTokens == UNION {[1..n -> LatencyChars] : n \in 0..MaxTokenLen} \cup LatencyExamples

\* The same for the throughput tokens.
ThroughputChars == {"1", "5", ".", "k", "g", "M", "n", "a", "-", " "}
ThroughputExamples ==
  {<<"2", ".", "5", "k">>, <<"+", "n", "a", "n">>, <<"-", "N", "a", "N">>, <<"1", "G">>,
   <<"1", "x">>}
ThroughputTokens ==
  UNION {[1..n -> ThroughputChars] : n \in 0..MaxTokenLen} \cup ThroughputExamples

\* The per-worker averages of the lists passed by a caller.
LatencyValues == {Rat(0, 1), Rat(10, 1), Rat(30, 1)}
RateValues == {Rat(100, 1), Rat(200, 1), Rat(300, 1)}

\* A WorkerStats of basic-workload-summary.py with these averages.
ScoredStats ==
  {WorkerStats("a", [latency_avg_ms |-> latency, latency_stdev_ms |-> Rat(1, 1),
                     req_avg |-> rate, req_stdev |-> Rat(1, 1)]) :
     latency \in LatencyValues, rate \in RateValues}

\* A WorkerSummary of per-connection-workload-summary.py, lines 110-121, by
\* the two fields compute_run_metrics reads.
WorkerSummary(latency, throughput) ==
  [latency_avg_ms |-> latency, throughput_req_per_sec |-> throughput]
ScoredSummaries ==
  {WorkerSummary(latency, rate) : latency \in LatencyValues, rate \in RateValues}

EntryLists(S) == UNION {[1..n -> S] : n \in 0..MaxEntries}

Returns(function, result) ==
  /\ called = "none"
  /\ called' = function
  /\ call_result' = result
  /\ UNCHANGED <<given, call_token, entries, evalVars, sumVars>>

\* parse_latency(token)
call_parse_latency ==
  /\ given = "latency token"
  /\ Returns("parse_latency", parse_latency(call_token))

\* parse_throughput(token)
call_parse_throughput ==
  /\ given = "throughput token"
  /\ Returns("parse_throughput", parse_throughput(call_token))

\* compute_run_metrics(stats) of basic-workload-summary.py
call_compute_run_metrics ==
  /\ given = "worker stats"
  /\ Returns("compute_run_metrics", compute_run_metrics(entries))

\* compute_run_metrics(stats) of per-connection-workload-summary.py
call_per_connection_compute_run_metrics ==
  /\ given = "worker summaries"
  /\ Returns("per_connection_compute_run_metrics", per_connection_compute_run_metrics(entries))

\* Neither program runs; a caller passes one argument to one function.
CallInit ==
  /\ EvalIdle
  /\ SummaryIdle
  /\ called = "none"
  /\ call_result = NotReturned
  /\ \/ given = "latency token" /\ call_token \in LatencyTokens /\ entries = <<>>
     \/ given = "throughput token" /\ call_token \in ThroughputTokens /\ entries = <<>>
     \/ given = "worker stats" /\ call_token = <<>> /\ entries \in EntryLists(ScoredStats)
     \/ given = "worker summaries" /\ call_token = <<>>
          /\ entries \in EntryLists(ScoredSummaries)

CallNext ==
  \/ call_parse_latency
  \/ call_parse_throughput
  \/ call_compute_run_metrics
  \/ call_per_connection_compute_run_metrics

CallSpec == CallInit /\ [][CallNext]_vars

\* ------------------------------------------------------------- properties

Ran == {stageLog[i] : i \in DOMAIN stageLog}
Count(seq, e) == Cardinality({i \in DOMAIN seq : seq[i] = e})
Has(seq, e) == \E i \in DOMAIN seq : seq[i] = e
Launched == procState # "not_started"
Returned == pc = "done" /\ exit = "return"
RunMetricKeys == MetricKeys \ {"compile_successful"}

\* C1: every result evaluate() returns has exactly the five metric keys, and
\* the metrics of a stage that was not reached or did not succeed are 0:
\* compile_successful when the build failed, the four run metrics when the
\* metrics file was never parsed.
C1_FixedMetricKeys ==
  Returned =>
    /\ DOMAIN metrics = MetricKeys
    /\ (build_rc # "zero" => metrics["compile_successful"] = 0)
    /\ ("parse" \notin Ran => \A k \in RunMetricKeys : metrics[k] = 0)

\* A result returned in mid-pipeline: the build succeeded, the scan stopped the run.
C1_Witness ==
  /\ Returned
  /\ build_rc = "zero"
  /\ scanSaw # {}
  /\ metrics["compile_successful"] = 1

\* C2: _terminate_process runs on a launched process exactly once before
\* evaluate() finishes, whether it returns or raises, and runs to its end;
\* when no process was launched nothing of the shutdown sequence happens.
C2_ShutdownExactlyOnce ==
  /\ Count(termLog, "enter") <= 1
  /\ (~Launched => termLog = <<>>)
  /\ (pc = "done" /\ Launched) =>
       /\ Count(termLog, "enter") = 1
       /\ termLog[1] = "enter"
       /\ termLog[Len(termLog)] = "close"

\* evaluate() left by the exception of the metrics parser, after one shutdown.
C2_Witness ==
  /\ pc = "done"
  /\ exit = "raise"
  /\ Count(termLog, "enter") = 1

IntAttempts == {"SIGINT", "SIGINT ProcessLookupError"}
TermAttempts == {"SIGTERM", "SIGTERM ProcessLookupError"}
CountIn(seq, S) == Cardinality({i \in DOMAIN seq : seq[i] \in S})

\* C3: shutdown escalates in the order interrupt, terminate, kill.  The
\* interrupt follows a liveness check that found the process alive; terminate
\* follows a delivered interrupt and a 15-second wait that timed out; kill
\* follows a delivered terminate and a 5-second wait that timed out.  Each stage happens at most
\* once, none is skipped, and after a wait that saw the process exit nothing
\* more is sent.
C3_EscalationOrder ==
  /\ \A i \in DOMAIN termLog :
       /\ termLog[i] \in IntAttempts => i > 1 /\ termLog[i - 1] = "poll alive"
       /\ termLog[i] \in TermAttempts =>
            i > 2 /\ termLog[i - 1] = "wait15 timeout" /\ termLog[i - 2] = "SIGINT"
       /\ termLog[i] = "kill" =>
            i > 2 /\ termLog[i - 1] = "wait5 timeout" /\ termLog[i - 2] = "SIGTERM"
       /\ (termLog[i] = "poll alive" /\ i < Len(termLog)) => termLog[i + 1] \in IntAttempts
       /\ (termLog[i] = "wait15 timeout" /\ i < Len(termLog)) => termLog[i + 1] \in TermAttempts
       /\ (termLog[i] = "wait5 timeout" /\ i < Len(termLog)) => termLog[i + 1] = "kill"
  /\ CountIn(termLog, IntAttempts) <= 1
  /\ CountIn(termLog, TermAttempts) <= 1
  /\ Count(termLog, "kill") <= 1
  /\ Has(termLog, "poll exited") => CountIn(termLog, IntAttempts \cup TermAttempts \cup {"kill"}) = 0
  /\ Has(termLog, "wait15 exited") => CountIn(termLog, TermAttempts \cup {"kill"}) = 0
  /\ Has(termLog, "wait5 exited") => Count(termLog, "kill") = 0

\* A shutdown that went through all three stages.
C3_Witness ==
  /\ pc = "done"
  /\ Has(termLog, "SIGINT")
  /\ Has(termLog, "SIGTERM")
  /\ Has(termLog, "kill")

JoinEvents == {"join done", "join timeout"}
ShutdownOver == Launched /\ pc \in {"fin_output", "done"}

\* C4: shutdown raises no error, whether the process had exited before it
\* began, exited during it, or was gone when a signal was sent
\* (ProcessLookupError); and whenever shutdown is over, the collector was
\* joined once and then the output stream was closed.
C4_ShutdownTolerant ==
  /\ ~termExc
  /\ (exit = "raise" => failed = "parse")
  /\ ShutdownOver =>
       /\ Len(termLog) >= 3
       /\ termLog[Len(termLog)] = "close"
       /\ termLog[Len(termLog) - 1] \in JoinEvents
       /\ CountIn(termLog, JoinEvents) = 1
       /\ Count(termLog, "close") = 1
       /\ stdoutClosed

\* The process vanished between the liveness check and the interrupt.
C4_Witness ==
  /\ Returned
  /\ Has(termLog, "poll alive")
  /\ Has(termLog, "SIGINT ProcessLookupError")
  /\ stdoutClosed

\* C5: the buffer is read for the launch_servers_output artifact only after
\* the collector has finished, so nothing is appended after the read and the
\* artifact holds every line the server wrote.
C5_BufferReadAfterCollectorStopped ==
  /\ readerAtRead # "running"
  /\ (pc = "done" /\ "launch_servers_output" \in DOMAIN artifacts) =>
       /\ outputArtifact = server_output
       /\ Len(outputArtifact) = produced

WaitPcs == {"wait_test", "wait_poll", "wait_glob", "wait_sleep", "wait_ret"}

\* What holds of the readiness wait in every state.
C6_WaitOutcome ==
  /\ (waitResult = "true" => pollSaw = "alive" /\ globSaw = "file")
  /\ (globSaw = "file" => waitResult = "true")
  /\ (pollSaw = "exited" => waitResult = "false")
  /\ (pc = "wait_ret" /\ waitResult = "false") =>
       \/ pollSaw = "exited"
       \/ elapsed >= WAIT_TIMEOUT /\ globSaw # "file"
  /\ (pc = "wait_ret" => waitResult \in {"true", "false"})
  /\ (pc \in WaitPcs \ {"wait_ret"} => waitResult = "none")
  /\ (pc \in {"wait_poll", "wait_glob", "wait_sleep"} => elapsed < WAIT_TIMEOUT)
  /\ (pc \in {"wait_glob", "wait_sleep"} => pollSaw = "alive")
  /\ (pc = "wait_sleep" => globSaw = "nofile")
  /\ (pc \in WaitPcs => elapsed <= WAIT_TIMEOUT)

\* C6: the readiness wait returns true as soon as a poll finds a server log,
\* returns false exactly when the timeout elapses without such a poll or a
\* poll finds the process exited, checks the process before every look at
\* the log directory, and always ends with one of the two results.
C6_ReadinessWait ==
  /\ []C6_WaitOutcome
  /\ (pc = "wait_test" ~> waitResult \in {"true", "false"})

\* The wait ran into its timeout with the process alive and no log in sight.
C6_Witness ==
  /\ pc = "wait_ret"
  /\ waitResult = "false"
  /\ pollSaw = "alive"
  /\ globSaw = "nofile"
  /\ elapsed = WAIT_TIMEOUT

IsPrefix(s, t) == Len(s) <= Len(t) /\ \A i \in DOMAIN s : s[i] = t[i]
LastStage == stageLog[Len(stageLog)]
TeardownPcs ==
  {"finally", "term_poll", "term_sigint", "term_wait15", "term_sigterm", "term_wait5",
   "term_kill", "term_join", "term_close", "fin_output", "done"}

\* C7: the stages run in the order build, launch, wait, scan, workload,
\* check_summary, parse, collect; each runs only after the ones before it
\* succeeded (the workload only after a zero build, a launch, an observed
\* readiness, a live process and a scan without findings); the stage that
\* fails is the last one to run.
C7_StageOrder ==
  /\ IsPrefix(stageLog, Stages)
  /\ ("launch" \in Ran => build_rc = "zero")
  /\ ("wait" \in Ran => Launched)
  /\ ("scan" \in Ran => waitResult = "true" /\ earlyPoll = "alive")
  /\ ("workload" \in Ran =>
        /\ build_rc = "zero"
        /\ Launched
        /\ waitResult = "true"
        /\ earlyPoll = "alive"
        /\ "scan" \in Ran
        /\ scanSaw = {})
  /\ ("check_summary" \in Ran => workload_rc = "zero")
  /\ ("parse" \in Ran => workFiles = SummaryFiles)
  /\ ("collect" \in Ran => parsedRow # <<>>)
  /\ (failed # "none" => pc \in TeardownPcs /\ LastStage = failed)
  /\ (build_rc \notin {"none", "zero"} => pc = "done" /\ LastStage = "build")
  /\ ((waitResult = "false" /\ pc # "wait_ret") => pc \in TeardownPcs /\ LastStage = "wait")
  /\ (earlyPoll = "exited" => pc \in TeardownPcs /\ LastStage = "wait")
  /\ (scanSaw # {} => pc \in TeardownPcs /\ LastStage = "scan")
  /\ ((workload_rc \notin {"none", "zero"} /\ pc \notin {"cleanup", "workload_ret"}) =>
        pc \in TeardownPcs /\ LastStage = "workload")
  /\ (("check_summary" \in Ran /\ workFiles # SummaryFiles) =>
        pc \in TeardownPcs /\ LastStage = "check_summary")

\* The workload runner was invoked.
C7_Witness ==
  /\ "workload" \in Ran
  /\ workload_rc = "zero"
  /\ pc = "done"
  /\ stageLog = Stages

HoldsText(key, text) == key \in DOMAIN artifacts /\ artifacts[key] = text

CellNumber(tok) == CASE tok = "1" -> 1 [] tok = "2" -> 2
MetricOf(col) ==
  CASE col = "avg_req_per_sec" -> "average_tput"
    [] col = "avg_latency_ms" -> "average_latency"
    [] col = "score" -> "total_score"

\* C9: run_successful is 1 only after a zero build, a zero workload exit, the
\* presence of both summary files and a parsed metrics file, and then the
\* three metrics are the numbers in the first data row of that file; when a
\* summary file is missing the pipeline stops with run_successful = 0.
C9_RunSuccessful ==
  /\ metrics["run_successful"] \in {0, 1}
  /\ metrics["run_successful"] = 1 =>
       /\ metrics["compile_successful"] = 1
       /\ build_rc = "zero"
       /\ workload_rc = "zero"
       /\ workFiles = SummaryFiles
       /\ parsedRow # <<>>
       /\ \A col \in DOMAIN parsedRow[1] :
            /\ parsedRow[1][col] \in {"1", "2"}
            /\ metrics[MetricOf(col)] = CellNumber(parsedRow[1][col])
  /\ ("check_summary" \in Ran /\ workFiles # SummaryFiles) =>
       /\ metrics["run_successful"] = 0
       /\ "parse" \notin Ran
       /\ exit = "return"
       /\ pc \in TeardownPcs

\* A successful run whose first data row holds a number in each column.
C9_Witness ==
  /\ Returned
  /\ metrics["run_successful"] = 1
  /\ DOMAIN parsedRow[1] = Columns
  /\ metrics["average_tput"] = 2
  /\ metrics["average_latency"] = 1
  /\ metrics["total_score"] = 2

\* C10: after every outcome of the workload command the cleanup (the sleep,
\* then the pkill commands) runs once, before _run_workload returns; an error
\* in the cleanup ends the cleanup and nothing else; a workload that did not
\* exit with zero stops the pipeline with workload_failure, workload_stdout
\* and workload_stderr recorded.
C10_WorkloadCleanup ==
  /\ cleanups <= 1
  /\ (pc \in {"workload", "cleanup"} => cleanups = 0)
  /\ (pc = "cleanup" => workload_rc # "none")
  /\ (pc = "workload_ret" =>
        /\ cleanups = 1
        /\ Len(cleanupLog) >= 3
        /\ cleanupLog[1] = "sleep"
        /\ cleanupLog[2] = "pkill launch_servers"
        /\ Count(cleanupLog, "sleep") = 1
        /\ Count(cleanupLog, "pkill launch_servers") = 1
        /\ Count(cleanupLog, "pkill server_code") <= 1
        /\ exit = "none")
  /\ (("workload" \in Ran /\ pc \notin {"cleanup", "workload_ret"}) =>
        /\ cleanups = 1
        /\ "workload_stdout" \in DOMAIN artifacts
        /\ "workload_stderr" \in DOMAIN artifacts
        /\ (workload_rc = "zero" => pc = "check_summary" \/ "check_summary" \in Ran)
        /\ (workload_rc # "zero" =>
              /\ HoldsText("workload_failure", "basic-workload.sh exited with code")
              /\ "check_summary" \notin Ran
              /\ exit = "return"
              /\ pc \in TeardownPcs))

\* The workload command could not be started and the cleanup raised as well.
C10_Witness ==
  /\ pc = "workload_ret"
  /\ workload_rc = "FileNotFoundError"
  /\ cleanups = 1
  /\ cleanupLog[Len(cleanupLog)] = "raised"

\* C11: whenever a server process was launched, the artifacts of a finished
\* evaluate() hold launch_servers_output with the whole of the captured server
\* output: the key is there, and nothing is captured that the artifact lacks.
C11_ServerOutputAttached ==
  (pc = "done" /\ Launched) =>
    /\ "launch_servers_output" \in DOMAIN artifacts
    /\ outputArtifact = server_output

\* C12: when the error scan finds a marker in a server log, the workload
\* runner is never invoked, run_successful stays 0 and the artifacts hold
\* launch_failure and, for exactly the log files with a marker, log_<name>
\* with the content of the file; when it finds none the workload is next.
C12_ErrorScanStops ==
  /\ (("scan" \in Ran /\ scanSaw # {}) =>
        /\ "workload" \notin Ran
        /\ workload_rc = "none"
        /\ cleanups = 0
        /\ metrics["run_successful"] = 0
        /\ HoldsText("launch_failure", "Detected 'error' keyword in server logs")
        /\ \A f \in LogNames :
             IF f \in scanSaw
               THEN HoldsText(LogKey(f), logDir[f])
               ELSE LogKey(f) \notin DOMAIN artifacts
        /\ pc \in TeardownPcs)
  /\ (("scan" \in Ran /\ scanSaw = {}) =>
        /\ LogKeys \cap DOMAIN artifacts = {}
        /\ pc = "workload" \/ "workload" \in Ran)

\* One log has a marker and the other exists without one; evaluate() returned.
C12_Witness ==
  /\ Returned
  /\ scanSaw = {"server1.log"}
  /\ logDir["server0.log"] = "clean"
  /\ failed = "scan"

\* ------------------------------------------- properties of the summarizer

Aborted(what) == main_pc = "done" /\ main_exit = "ValueError" /\ error = what
NothingWritten == output_file = <<>> /\ metrics_file = <<>>

\* What the closed START/END pairs of the input read so far hold, in file order.
ExpectedStats == [i \in DOMAIN expected |-> WorkerStats(expected[i].name, expected[i].found)]

\* C13: a START line read while a section is open makes parse_aggregated_log
\* raise, whatever the two names are and however many sections were closed
\* before: no list is returned and nothing is written.
C13_NestedStartFatal ==
  event = "nested_start" =>
    /\ Aborted("nested section start")
    /\ NothingWritten

\* A START read inside the second section, after the first was scored.
C13_Witness ==
  /\ event = "nested_start"
  /\ Len(stats) = 1
  /\ opened = "a"
  /\ between # <<>>

\* C14: an END line whose name is not the open section's makes
\* parse_aggregated_log raise: the section stays open and unscored, no list
\* is returned and nothing is written.
C14_EndMismatchFatal ==
  event = "end_mismatch" =>
    /\ Aborted("section end does not match")
    /\ opened # "None"
    /\ current_name = opened
    /\ Len(stats) = Len(expected)
    /\ NothingWritten

\* The open section held lines that would have been scored.
C14_Witness ==
  /\ event = "end_mismatch"
  /\ extract_metrics_from_lines(between).raised = "none"
  /\ main_exit = "ValueError"

\* C15: the end of the input with a section still open makes
\* parse_aggregated_log raise, however many sections were closed before; the
\* closed sections are not returned.
C15_UnterminatedFatal ==
  event = "eof_open" =>
    /\ Aborted("unterminated section")
    /\ NothingWritten

\* The input ends inside its second section.
C15_Witness ==
  /\ event = "eof_open"
  /\ Len(stats) = 1
  /\ main_exit = "ValueError"

\* C16: parse_aggregated_log never returns an empty list: an input without a
\* closed section raises "no worker sections", and the list main() goes on
\* with has at least one WorkerStats.
C16_NeverEmptyList ==
  /\ (event = "eof_closed" /\ expected = <<>>) =>
       Aborted("no worker sections") /\ NothingWritten
  /\ (main_pc \in {"write_csv", "compute"} \/ main_exit = "return 0") => stats # <<>>
  /\ (output_file # <<>> => output_file[1] # <<>>)

\* The input had no closed section when it ended.
C16_Witness ==
  /\ event = "eof_closed"
  /\ expected = <<>>
  /\ error = "no worker sections"

\* parse_aggregated_log() returned its list to main().
Split ==
  /\ main_pc \in {"write_csv", "compute", "done"}
  /\ error \in {"none", "Average latency is zero"}

\* C17: in a log where every START is followed by an END of the same name
\* before the next START, every START/END pair yields one WorkerStats, in file
\* order, and with the end of the input the list of them is returned.  (The
\* input read so far is of that form whenever a matching END or the end of
\* the input outside a section is reached.)
C17_WellFormedLogSplit ==
  /\ event = "end_match" =>
       main_exit = "running" /\ stats = ExpectedStats
  /\ event = "eof_closed" => Split /\ stats = ExpectedStats

\* C17 as amended: provided no other END lies between a START and its END,
\* every section's lines give the four fields, and there is at least one
\* section, the list returned has one WorkerStats per START/END pair in file
\* order, each computed from exactly the non-marker lines between the two;
\* after every END that closes a section the state is outside with an empty
\* buffer; lines read outside a section change nothing.
C17_WellFormedLogSplitAmended ==
  /\ (event = "end_match" /\ extract_result.raised = "none") =>
       /\ main_exit = "running"
       /\ stats = ExpectedStats
       /\ stats[Len(stats)] = WorkerStats(expected[Len(expected)].name, extract_result)
       /\ current_name = "None"
       /\ current_lines = <<>>
  /\ (event = "eof_closed" /\ expected # <<>>) => Split /\ stats = ExpectedStats
  /\ main_pc = "split" =>
       /\ stats = ExpectedStats
       /\ current_name = opened
       /\ current_lines = between
       /\ (opened = "None" => between = <<>>)
  /\ (event \in {"text_outside", "end_outside"} /\ main_pc = "split") =>
       current_name = "None" /\ current_lines = <<>>

\* Two sections were read and their list was returned to main().
C17_Witness ==
  /\ event = "eof_closed"
  /\ main_pc = "write_csv"
  /\ Len(stats) = 2
  /\ stats[1] # stats[2]

\* A line with the given first word and both tokens after it.
Holds(line, head) == line.head = head /\ Len(line.args) >= 2
FirstWith(lines, head) ==
  lines[CHOOSE i \in DOMAIN lines :
          Holds(lines[i], head) /\ \A j \in 1..(i - 1) : ~Holds(lines[j], head)]

\* C18: of several lines beginning with "Latency" (or with "Req/Sec") the
\* first one gives the average and the standard deviation, and the later
\* ones are ignored, whatever they hold.
C18_FirstOccurrenceWins ==
  (/\ extract_result.raised # "not called"
   /\ (\E i \in DOMAIN extract_input : Holds(extract_input[i], "Latency"))
   /\ (\E j \in DOMAIN extract_input : Holds(extract_input[j], "Req/Sec"))) =>
    LET latency == FirstWith(extract_input, "Latency")
        req == FirstWith(extract_input, "Req/Sec")
    IN  (/\ parse_latency(latency.args[1]).raised = "none"
         /\ parse_latency(latency.args[2]).raised = "none"
         /\ parse_throughput(req.args[1]).raised = "none"
         /\ parse_throughput(req.args[2]).raised = "none") =>
          /\ extract_result.raised = "none"
          /\ extract_result.latency_avg_ms = parse_latency(latency.args[1]).value
          /\ extract_result.latency_stdev_ms = parse_latency(latency.args[2]).value
          /\ extract_result.req_avg = parse_throughput(req.args[1]).value
          /\ extract_result.req_stdev = parse_throughput(req.args[2]).value

\* Every token of the lines the loop parses is one the parsers accept.
AllParse(lines) ==
  \A i \in DOMAIN lines :
    /\ Holds(lines[i], "Latency") =>
         /\ parse_latency(lines[i].args[1]).raised = "none"
         /\ parse_latency(lines[i].args[2]).raised = "none"
    /\ Holds(lines[i], "Req/Sec") =>
         /\ parse_throughput(lines[i].args[1]).raised = "none"
         /\ parse_throughput(lines[i].args[2]).raised = "none"

\* The fields no line of the input gives.
NotFound(lines) ==
  (IF \E i \in DOMAIN lines : Holds(lines[i], "Latency")
     THEN {} ELSE {"latency_avg", "latency_stdev"})
  \cup
  (IF \E i \in DOMAIN lines : Holds(lines[i], "Req/Sec")
     THEN {} ELSE {"req_per_sec_avg", "req_per_sec_stdev"})

Complete(found) ==
  /\ found.latency_avg_ms # None
  /\ found.latency_stdev_ms # None
  /\ found.req_avg # None
  /\ found.req_stdev # None

\* C19: _extract_metrics_from_lines returns its four values only when the
\* input gave all four; when the input is read to its end and a field was not
\* found it raises "Missing fields" naming exactly the fields not found; no
\* WorkerStats ever holds a field that was not found.
C19_AllFieldsOrMissingError ==
  /\ extract_result.raised # "not called" =>
       /\ extract_result.raised = "none" <=>
            (AllParse(extract_input) /\ NotFound(extract_input) = {})
       /\ extract_result.raised = "none" => Complete(extract_result)
       /\ extract_result.raised = "Missing fields" <=>
            (AllParse(extract_input) /\ NotFound(extract_input) # {})
       /\ extract_result.raised = "Missing fields" =>
            /\ extract_result.missing = NotFound(extract_input)
            /\ missing = extract_result.missing
            /\ main_exit = "ValueError"
  /\ \A i \in DOMAIN stats :
       /\ stats[i].latency_avg_ms # None
       /\ stats[i].latency_stdev_ms # None
       /\ stats[i].req_per_sec_avg # None
       /\ stats[i].req_per_sec_stdev # None

\* A log with a Latency line and no Req/Sec line.
C19_Witness ==
  /\ extract_result.raised = "Missing fields"
  /\ extract_result.missing = {"req_per_sec_avg", "req_per_sec_stdev"}
  /\ \E i \in DOMAIN extract_input : Holds(extract_input[i], "Latency")
  /\ main_exit = "ValueError"

\* C20: when a worker log does not parse (a field is missing, or a token is
\* not accepted), main() ends with the ValueError: the other workers are not
\* scored, the aggregated log is not read, and neither file is written.
C20_WorkerFailureAborts ==
  event = "worker_failed" =>
    /\ main_pc = "done"
    /\ main_exit = "ValueError"
    /\ error = extract_result.raised
    /\ error # "none"
    /\ Len(stats) < worker_logs
    /\ NothingWritten
    /\ current_name = "None"
    /\ opened = "None"
    /\ expected = <<>>

\* The second of two worker logs has an unparseable token; an aggregated log
\* is there.
C20_Witness ==
  /\ event = "worker_failed"
  /\ worker_logs = 2
  /\ Len(stats) = 1
  /\ aggregated_log
  /\ error = "Unrecognized latency value"

\* ------------------------------------------------ properties of the scorer

\* The call of either compute_run_metrics that was made.
ScorerCalled == called \in {"compute_run_metrics", "per_connection_compute_run_metrics"}

\* The per-worker latency averages of the list passed.
RECURSIVE LatencySum(_)
LatencySum(workers) ==
  IF workers = <<>> THEN Rat(0, 1)
  ELSE RatAdd(Head(workers).latency_avg_ms, LatencySum(Tail(workers)))

\* C21: compute_run_metrics raises "No worker stats provided" on an empty
\* list and "Average latency is zero" on a non-empty list whose latencies
\* have mean zero, and returns no RunMetrics then; every RunMetrics returned
\* has workers >= 1 and avg_latency_ms # 0.  The same holds of the scorer of
\* per-connection-workload-summary.py.
C21_ScorerRaises ==
  /\ ScorerCalled =>
       /\ entries = <<>> => call_result.raised = "No worker stats provided for scoring"
       /\ (entries # <<>> /\ LatencySum(entries) = Rat(0, 1)) =>
            call_result.raised = "Average latency is zero"
       /\ call_result.raised # "none" => call_result.metrics = NoRunMetrics
       /\ call_result.raised = "none" =>
            /\ call_result.metrics.workers >= 1
            /\ call_result.metrics.avg_latency_ms \notin {Rat(0, 1), None}

\* Two workers with latency zero were scored.
C21_Witness ==
  /\ called = "compute_run_metrics"
  /\ Len(entries) = 2
  /\ call_result.raised = "Average latency is zero"

\* The per-worker throughput averages of the list passed, summed.
RECURSIVE RateSum(_)
RateSum(workers) ==
  IF workers = <<>> THEN Rat(0, 1)
  ELSE RatAdd(Head(workers).req_per_sec_avg, RateSum(Tail(workers)))

\* The mean of the squared distances of the values from m.
RECURSIVE SquaredDistances(_, _)
SquaredDistances(values, m) ==
  IF values = <<>> THEN Rat(0, 1)
  ELSE RatAdd(RatSquare(RatSub(Head(values), m)), SquaredDistances(Tail(values), m))
Variance(values, m) == RatDiv(SquaredDistances(values, m), Rat(Len(values), 1))

\* The square of a standard deviation.
Squared(sd) ==
  LET a == [n |-> sd.n, d |-> sd.d, e |-> sd.e]
  IN  IF sd.root = 2 THEN a ELSE RatSquare(a)

\* Three workers with 100, 200 and 300 requests per second and 10 ms each.
Example ==
  /\ Len(entries) = 3
  /\ \A i \in 1..3 :
       /\ entries[i].req_per_sec_avg = Rat(100 * i, 1)
       /\ entries[i].latency_avg_ms = Rat(10, 1)

\* C22: for a non-empty list whose latencies do not have mean zero,
\* compute_run_metrics returns workers = the length of the list, the
\* arithmetic means of the per-worker latency and throughput averages, score
\* = mean throughput / mean latency, and the population standard deviations
\* of the two, which are 0 for one worker; throughputs 100, 200, 300 with
\* latencies 10, 10, 10 give 200, 10, score 20 and latency deviation 0.
C22_ScorerMetrics ==
  (called = "compute_run_metrics" /\ entries # <<>> /\ LatencySum(entries) # Rat(0, 1)) =>
    LET run == call_result.metrics
        count == Rat(Len(entries), 1)
        latency_values == [i \in DOMAIN entries |-> entries[i].latency_avg_ms]
        req_values == [i \in DOMAIN entries |-> entries[i].req_per_sec_avg]
    IN  /\ call_result.raised = "none"
        /\ run.workers = Len(entries)
        /\ RatMul(run.avg_latency_ms, count) = LatencySum(entries)
        /\ RatMul(run.avg_req_per_sec, count) = RateSum(entries)
        /\ RatMul(run.score, run.avg_latency_ms) = run.avg_req_per_sec
        /\ Squared(run.latency_stddev_ms) = Variance(latency_values, run.avg_latency_ms)
        /\ Squared(run.req_per_sec_stddev) = Variance(req_values, run.avg_req_per_sec)
        /\ Len(entries) = 1 =>
             run.latency_stddev_ms = NoStdev /\ run.req_per_sec_stddev = NoStdev
        /\ Example =>
             /\ run.avg_req_per_sec = Rat(200, 1)
             /\ run.avg_latency_ms = Rat(10, 1)
             /\ run.score = Rat(20, 1)
             /\ run.latency_stddev_ms = NoStdev

\* The three workers of the example were scored.
C22_Witness ==
  /\ called = "compute_run_metrics"
  /\ Example
  /\ call_result.raised = "none"
  /\ call_result.metrics.req_per_sec_stddev.root = 2

\* ------------------------------------------- properties of the unit parsers

\* The number a text of digits with at most one dot spells: every digit
\* counts by its place before or after the dot.
DotAt(text) ==
  IF \E i \in DOMAIN text : text[i] = "." THEN CHOOSE i \in DOMAIN text : text[i] = "."
  ELSE Len(text) + 1
PlaceValue(text, i) ==
  IF text[i] = "." THEN Rat(0, 1)
  ELSE IF i < DotAt(text) THEN Norm(DigitValue(text[i]), 1, DotAt(text) - i - 1)
  ELSE Norm(DigitValue(text[i]), 1, DotAt(text) - i)
Spelled(text) == RatSum([i \in DOMAIN text |-> PlaceValue(text, i)])

\* <number>: digits, with at most one dot that has a digit somewhere after
\* it and none missing at the end.
IsNumberText(text) ==
  /\ text # <<>>
  /\ \A i \in DOMAIN text : text[i] \in DigitChars \cup {"."}
  /\ \A i, j \in DOMAIN text : (text[i] = "." /\ text[j] = ".") => i = j
  /\ text[Len(text)] # "."

\* A unit or suffix in any letter case.
SameLetters(text, letters) ==
  /\ Len(text) = Len(letters)
  /\ \A i \in DOMAIN text : text[i] = letters[i] \/ LowerChar(text[i]) = letters[i]

\* The factor of a latency unit, or None for what is not one of the three.
LatencyFactor(unit) ==
  IF SameLetters(unit, <<"u", "s">>) THEN Rat(1, 1000)
  ELSE IF SameLetters(unit, <<"m", "s">>) THEN Rat(1, 1)
  ELSE IF SameLetters(unit, <<"s">>) THEN Rat(1000, 1)
  ELSE None

\* The places where text can be cut into <number> and a unit with a factor.
Cuts(text, Factor(_)) ==
  {k \in 1..Len(text) :
     /\ IsNumberText(SubSeq(text, 1, k))
     /\ Factor(SubSeq(text, k + 1, Len(text))) # None}
Product(text, k, Factor(_)) ==
  RatMul(Spelled(SubSeq(text, 1, k)), Factor(SubSeq(text, k + 1, Len(text))))

\* C23: parse_latency(token) is number * 0.001, number * 1 or number * 1000
\* for a token <number>us, <number>ms or <number>s in any letter case, and
\* raises a ValueError for every other token; "1.5s" gives 1500, "200us"
\* gives 0.2 and "10ms" gives 10.
C23_ParseLatency ==
  called = "parse_latency" =>
    /\ \A k \in Cuts(call_token, LatencyFactor) :
         /\ call_result.raised = "none"
         /\ call_result.value = Product(call_token, k, LatencyFactor)
    /\ Cuts(call_token, LatencyFactor) = {} =>
         /\ call_result.raised \in {"Unrecognized latency value", "Unsupported latency unit"}
         /\ call_result.value = None
    /\ call_token = <<"1", ".", "5", "s">> => call_result.value = Rat(1500, 1)
    /\ call_token = <<"2", "0", "0", "u", "s">> => call_result.value = Rat(1, 5)
    /\ call_token = <<"1", "0", "m", "s">> => call_result.value = Rat(10, 1)

\* "200us" was parsed.
C23_Witness ==
  /\ called = "parse_latency"
  /\ call_token = <<"2", "0", "0", "u", "s">>
  /\ call_result = [raised |-> "none", value |-> Rat(1, 5)]

\* The factor of a throughput suffix, or None for what is not one of the four.
ThroughputFactor(suffix) ==
  IF suffix = <<>> THEN Rat(1, 1)
  ELSE IF SameLetters(suffix, <<"k">>) THEN Rat(1000, 1)
  ELSE IF SameLetters(suffix, <<"m">>) THEN Rat(1000000, 1)
  ELSE IF SameLetters(suffix, <<"g">>) THEN Rat(1000000000, 1)
  ELSE None

\* nan, -nan or +nan, in any letter case
IsNan(text) ==
  \/ SameLetters(text, <<"n", "a", "n">>)
  \/ SameLetters(text, <<"-", "n", "a", "n">>)
  \/ SameLetters(text, <<"+", "n", "a", "n">>)

\* What the claim says of parse_throughput on this text.
ThroughputOf(text) ==
  /\ \A k \in Cuts(text, ThroughputFactor) :
       /\ call_result.raised = "none"
       /\ call_result.value = Product(text, k, ThroughputFactor)
  /\ IsNan(text) => call_result = [raised |-> "none", value |-> Rat(0, 1)]
  /\ (Cuts(text, ThroughputFactor) = {} /\ ~IsNan(text)) =>
       /\ call_result.raised \in
            {"Unrecognized throughput value", "Unsupported throughput suffix"}
       /\ call_result.value = None

\* The token without the blanks around it.
Blank(text) == \A i \in DOMAIN text : text[i] = " "
Core(text) ==
  IF Blank(text) THEN <<>>
  ELSE LET first == CHOOSE i \in DOMAIN text :
                      text[i] # " " /\ \A j \in 1..(i - 1) : text[j] = " "
           last == CHOOSE i \in DOMAIN text :
                     text[i] # " " /\ \A j \in (i + 1)..Len(text) : text[j] = " "
       IN  SubSeq(text, first, last)

C25_ShutdownReturns == (pc = "term_poll") ~> (pc \in {"fin_output", "done"})

\* -------------------------------------------- properties of the readiness wait

\* C26: when _wait_for_server_logs returns True, the server launched in this
\* run has written a log file: a file that was in LOG_DIR before the launch
\* does not make the wait report readiness.
C26_ReadyMeansOwnLog == waitResult = "true" => ownLog

\* C27: when _terminate_process has returned, the process it was called on
\* has exited, whichever stage ended the shutdown.
C27_StoppedWhenShutdownReturns == ShutdownOver => procState = "exited"

====
